---- MODULE Spec2Model ----
(***************************************************************************)
(* A model of stacked-portrayals: the content-addressed download cache     *)
(* (src/src/mappings/cache.rs) and the mapping graph composer              *)
(* (src/src/mappings.rs).                                                  *)
(***************************************************************************)
EXTENDS Integers, Sequences, FiniteSets, TLC

(***************************************************************************)
(* Bounds of the model.                                                    *)
(***************************************************************************)
\* Files and response bodies hold at most MaxLen bytes.
MaxLen == 2
\* Calls of load_mappings made one after another by the sequential process.
MaxCalls == 2
\* I/O and network faults the environment injects in one behaviour.
MaxFaults == 1
\* Responses with wrong bytes the source sends while two processes run.
ConcWrong == 1

(***************************************************************************)
(* Program constants.                                                      *)
(***************************************************************************)
\* `for _attempt in 0..5`
MaxAttempts == 5

\* The alphabet of file and response contents.
Bytes == {0, 1}
\* The source may send wrong bytes any number of times.
Unlimited == -1
Procs == {1, 2}
\* An inode is referenced by the cache path or by an open handle; one more
\* than the number of handles is always enough.
Inodes == 1..(Cardinality(Procs) + 1)
NoFile == 0
\* MappingDownload.size == None
NoSize == -1

RECURSIVE SeqsUpTo(_)
SeqsUpTo(n) ==
    IF n = 0 THEN {<<>>}
    ELSE LET shorter == SeqsUpTo(n - 1)
         IN  shorter \cup {Append(s, b) : s \in {t \in shorter : Len(t) = n - 1}, b \in Bytes}

\* Every byte string a file or a response body can hold.
Contents == SeqsUpTo(MaxLen)

(***************************************************************************)
(* HashCode: the digest of a byte string and its hex rendering.  The       *)
(* digest is collision free on Contents (the cryptographic assumption);    *)
(* a hex string is the digest together with the case of its letters.       *)
(***************************************************************************)
RECURSIVE DigestFrom(_, _)
DigestFrom(h, s) ==
    IF s = <<>> THEN h
    ELSE DigestFrom(h * (Cardinality(Bytes) + 1) + Head(s) + 1, Tail(s))

\* digest.finalize() of the bytes fed to the digest
Digest(s) == DigestFrom(1, s)

\* format!("{:x}", digest.finalize()): lower-case hex
LowerHex(d) == [digest |-> d, upper |-> FALSE]

\* expect.to_ascii_lowercase()
ToAsciiLowercase(hex) == [hex EXCEPT !.upper = FALSE]

\* A comparison that forgets to lower-case the declared hex.
HashMatchesExact(read, expect) == LowerHex(Digest(read)) = expect

\* A comparison that accepts any digest.
HashIgnored(read, expect) == TRUE

\* verify_impl's comparison: `hash != expect.to_ascii_lowercase()` is the failure
HashMatches(read, expect) == LowerHex(Digest(read)) = ToAsciiLowercase(expect)

\* validate_mappings' size test: `size != expect_size` is the failure
SizeMatches(len, expectSize) == expectSize = NoSize \/ len = expectSize

VARIABLES
    dl,         \* the MappingDownload: [hash, size]
    good,       \* the bytes B whose hash and size dl declares
    cache_file,       \* inode linked at the canonical cache path, or NoFile
    files,      \* inode -> content
    pc,         \* per process: position inside load_mappings
    attempt,    \* per process: _attempt of the for loop
    failures,   \* per process: the failures vector (each failure named by its attempt)
    fh,         \* per process: inode of the open File, or NoFile
    pos,        \* per process: position of the open File
    body,       \* per process: bytes of the response still to copy
    hashed,     \* per process: bytes fed to the digest so far
    verr,       \* per process: the pending validate_error
    result,     \* per process: what load_mappings returned
    report,     \* per process: failures attached to the final error
    callsLeft,  \* per process: calls of load_mappings still to make
    faults,     \* faults injected so far
    wrongLeft,  \* responses with wrong bytes the source may still send, or Unlimited
    hist,       \* per process: what the current call has done (observation only)
    version,    \* generate_mapper: the version argument
    from,       \* generate_mapper: the from argument
    to,         \* generate_mapper: the to argument
    gpc,        \* generate_mapper: position inside the function
    visit_next, \* astar: the heap of (estimate, node) still to visit
    scores,     \* astar: best known cost of each reached node
    estimate_scores, \* astar: estimate each visited node was expanded with
    came_from,  \* astar: predecessor of each reached node
    path,       \* generate_mapper: the node path astar returned
    mappers,    \* generate_mapper: the base mappers loaded so far
    outcome,    \* generate_mapper: what the call produced
    loads       \* generate_mapper: the edge loads invoked so far (observation only)

cacheVars ==
    <<dl, good, cache_file, files, pc, attempt, failures, fh, pos, body,
      hashed, verr, result, report, callsLeft, faults, wrongLeft, hist>>

genVars ==
    <<version, from, to, gpc, visit_next, scores, estimate_scores, came_from,
      path, mappers, outcome, loads>>

VARIABLES
    rawClasses, \* convert_mappings: the raw class mappings a source parsed
    hasher,     \* the iteration order the HashMaps of a mapper were given
    stdin,      \* main_for_result: the text read from standard input
    tiny,       \* parse_tiny_v2: the class sections of a tiny-v2 file
    call        \* the last operation applied, its arguments and what it returned

pureVars == <<rawClasses, hasher, stdin, tiny, call>>

vars == <<cacheVars, genVars, pureVars>>

\* No mapper has been built and no trace read.
PureIdle ==
    /\ rawClasses = <<>>
    /\ hasher = FALSE
    /\ stdin = <<>>
    /\ tiny = <<>>
    /\ call = [op |-> "none"]

(***************************************************************************)
(* Naming schemes and the state of generate_mapper before it is called.    *)
(***************************************************************************)
NamesType == {"Obfuscated", "Mojang", "FabricIntermediary"}

\* An empty HashMap.
EmptyMap == <<>>

GenIdle ==
    /\ version = "none"
    /\ from = "none"
    /\ to = "none"
    /\ gpc = "idle"
    /\ visit_next = {}
    /\ scores = EmptyMap
    /\ estimate_scores = EmptyMap
    /\ came_from = EmptyMap
    /\ path = <<>>
    /\ mappers = <<>>
    /\ outcome = "none"
    /\ loads = <<>>

(***************************************************************************)
(* The file system: one canonical cache path, inodes that outlive their    *)
(* unlinking while a handle is open (POSIX), writes at the handle's own    *)
(* position without truncation (OpenOptions: create, write, read).         *)
(***************************************************************************)
Referenced(pth, handles) == ({pth} \cup {handles[q] : q \in Procs}) \ {NoFile}

\* Content of inodes nobody references is gone.
Scrub(f, pth, handles) ==
    [i \in Inodes |-> IF i \in Referenced(pth, handles) THEN f[i] ELSE <<>>]

FreshInode ==
    CHOOSE i \in Inodes :
        /\ i \notin Referenced(cache_file, fh)
        /\ \A j \in Inodes : j \notin Referenced(cache_file, fh) => i <= j

\* Write::write of one byte at position at (0-based)
WriteAt(content, at, byte) ==
    IF at < Len(content) THEN [content EXCEPT ![at + 1] = byte]
    ELSE Append(content, byte)

\* The state of the cache entry as a caller finds it.
EntryState ==
    IF cache_file = NoFile THEN "missing"
    ELSE IF files[cache_file] = good THEN "valid" ELSE "corrupt"

NewHist ==
    [q \in Procs |->
        [start |-> EntryState, prev |-> result[q], lastOpen |-> "none", fetches |-> 0,
         faulted |-> FALSE]]

IdleHist ==
    [start |-> "missing", prev |-> "none", lastOpen |-> "none", fetches |-> 0,
     faulted |-> FALSE]

\* The environment may inject one more fault.
CanFault == faults < MaxFaults

(***************************************************************************)
(* Initial states: any declared download, any state of the cache entry.    *)
(***************************************************************************)
InitEntry ==
    /\ good \in Contents
    /\ dl \in {[hash |-> [digest |-> Digest(good), upper |-> u], size |-> sz] :
                 u \in BOOLEAN, sz \in {NoSize, Len(good)}}
    /\ \E c \in Contents, present \in BOOLEAN :
          /\ cache_file = IF present THEN 1 ELSE NoFile
          /\ files = [i \in Inodes |-> IF present /\ i = 1 THEN c ELSE <<>>]
    /\ pc = [p \in Procs |-> "idle"]
    /\ attempt = [p \in Procs |-> 0]
    /\ failures = [p \in Procs |-> <<>>]
    /\ fh = [p \in Procs |-> NoFile]
    /\ pos = [p \in Procs |-> 0]
    /\ body = [p \in Procs |-> <<>>]
    /\ hashed = [p \in Procs |-> <<>>]
    /\ verr = [p \in Procs |-> "none"]
    /\ result = [p \in Procs |-> "none"]
    /\ report = [p \in Procs |-> <<>>]
    /\ hist = [p \in Procs |-> IdleHist]

\* One process calls load_mappings MaxCalls times, one call after another;
\* the source either always sends the declared bytes or sends anything.
Init ==
    /\ InitEntry
    /\ GenIdle
    /\ PureIdle
    /\ callsLeft = [p \in Procs |-> IF p = 1 THEN MaxCalls ELSE 0]
    /\ faults = 0
    /\ wrongLeft \in {0, Unlimited}

\* Two processes call load_mappings once each on the same entry; the only
\* failures are the ones they cause each other.
InitConc ==
    /\ InitEntry
    /\ GenIdle
    /\ PureIdle
    /\ Len(good) = MaxLen
    /\ ~dl.hash.upper
    /\ callsLeft = [p \in Procs |-> 1]
    /\ faults = MaxFaults
    /\ wrongLeft = ConcWrong

(***************************************************************************)
(* load_mappings, one action per step of the code.                         *)
(***************************************************************************)
\* An error that lets the attempt loop go on instead of returning.
ContinueOnErr(p, err) ==
    /\ pc' = [pc EXCEPT ![p] = "open"]
    /\ result' = result
    /\ fh' = [fh EXCEPT ![p] = NoFile]
    /\ files' = Scrub(files, cache_file, fh')

\* `return Err(..)` or `?`: the local File is dropped.
ReturnErr(p, err) ==
    /\ pc' = [pc EXCEPT ![p] = "done"]
    /\ result' = [result EXCEPT ![p] = err]
    /\ fh' = [fh EXCEPT ![p] = NoFile]
    /\ files' = Scrub(files, cache_file, fh')

Faulty(p) ==
    /\ CanFault
    /\ faults' = faults + 1
    /\ hist' = [hist EXCEPT ![p].faulted = TRUE]

\* A caller enters load_mappings; the File of its previous call is closed.
Call(p) ==
    /\ pc[p] \in {"idle", "done"}
    /\ callsLeft[p] > 0
    /\ callsLeft' = [callsLeft EXCEPT ![p] = @ - 1]
    /\ pc' = [pc EXCEPT ![p] = "open"]
    /\ attempt' = [attempt EXCEPT ![p] = 0]
    /\ failures' = [failures EXCEPT ![p] = <<>>]
    /\ fh' = [fh EXCEPT ![p] = NoFile]
    /\ files' = Scrub(files, cache_file, fh')
    /\ pos' = [pos EXCEPT ![p] = 0]
    /\ body' = [body EXCEPT ![p] = <<>>]
    /\ hashed' = [hashed EXCEPT ![p] = <<>>]
    /\ verr' = [verr EXCEPT ![p] = "none"]
    /\ result' = [result EXCEPT ![p] = "none"]
    /\ report' = [report EXCEPT ![p] = <<>>]
    /\ hist' = [hist EXCEPT ![p] = NewHist[p]]
    /\ UNCHANGED <<dl, good, wrongLeft, cache_file, faults,
                   genVars, pureVars>>

\* An Ok arm that downloads again although the file was found.
AfterOpenFoundRefetch == "fetch"

\* Where File::open's Ok arm goes next: straight to validate_mappings.
AfterOpenFound == "size"

\* File::open(&cache_file)
Open(p) ==
    /\ pc[p] = "open"
    /\ \/ /\ Faulty(p)
          /\ ReturnErr(p, "ErrOpen")
          /\ UNCHANGED pos
       \/ /\ cache_file # NoFile
          /\ fh' = [fh EXCEPT ![p] = cache_file]
          /\ pos' = [pos EXCEPT ![p] = 0]
          /\ pc' = [pc EXCEPT ![p] = AfterOpenFound]
          /\ hist' = [hist EXCEPT ![p].lastOpen = "found"]
          /\ UNCHANGED <<files, result, faults>>
       \/ /\ cache_file = NoFile
          /\ pc' = [pc EXCEPT ![p] = "mkdir"]
          /\ hist' = [hist EXCEPT ![p].lastOpen = "missing"]
          /\ UNCHANGED <<fh, pos, files, result, faults>>
    /\ UNCHANGED <<dl, good, wrongLeft, cache_file, attempt, failures, body, hashed,
                   verr, report, callsLeft,
                   genVars, pureVars>>

\* std::fs::create_dir_all(cache_file.parent())
Mkdir(p) ==
    /\ pc[p] = "mkdir"
    /\ \/ /\ Faulty(p)
          /\ ReturnErr(p, "ErrMkdir")
       \/ /\ pc' = [pc EXCEPT ![p] = "create"]
          /\ UNCHANGED <<fh, files, result, faults, hist>>
    /\ UNCHANGED <<dl, good, wrongLeft, cache_file, attempt, failures, pos, body, hashed, verr,
                   report, callsLeft,
                   genVars, pureVars>>

\* OpenOptions::new().create(true).write(true).read(true).open(&cache_file)
Create(p) ==
    /\ pc[p] = "create"
    /\ \/ /\ Faulty(p)
          /\ ReturnErr(p, "ErrCreate")
          /\ UNCHANGED <<cache_file, pos>>
       \/ /\ IF cache_file # NoFile
             THEN /\ fh' = [fh EXCEPT ![p] = cache_file]
                  /\ UNCHANGED <<cache_file, files>>
             ELSE /\ fh' = [fh EXCEPT ![p] = FreshInode]
                  /\ cache_file' = FreshInode
                  /\ files' = [files EXCEPT ![FreshInode] = <<>>]
          /\ pos' = [pos EXCEPT ![p] = 0]
          /\ pc' = [pc EXCEPT ![p] = "fetch"]
          /\ UNCHANGED <<result, faults, hist>>
    /\ UNCHANGED <<dl, good, wrongLeft, attempt, failures, body, hashed, verr,
                   report, callsLeft,
                   genVars, pureVars>>

\* good_error_request(&dl.source): the source answers with any body, or fails
Fetch(p) ==
    /\ pc[p] = "fetch"
    /\ \/ /\ Faulty(p)
          /\ ReturnErr(p, "ErrFetch")
          /\ UNCHANGED <<body, wrongLeft>>
       \/ \E b \in Contents :
             /\ b # good => wrongLeft # 0
             /\ wrongLeft' = IF b # good /\ wrongLeft > 0 THEN wrongLeft - 1 ELSE wrongLeft
             /\ body' = [body EXCEPT ![p] = b]
             /\ pc' = [pc EXCEPT ![p] = IF b = <<>> THEN "seek" ELSE "copy"]
             /\ hist' = [hist EXCEPT ![p].fetches = @ + 1]
             /\ UNCHANGED <<fh, files, result, faults>>
    /\ UNCHANGED <<dl, good, cache_file, attempt, failures, pos, hashed,
                   verr, report, callsLeft,
                   genVars, pureVars>>

\* download.copy_to(&mut file), one byte of the body at a time
Copy(p) ==
    /\ pc[p] = "copy"
    /\ body[p] # <<>>
    /\ \/ /\ Faulty(p)
          /\ ReturnErr(p, "ErrWrite")
          /\ UNCHANGED <<body, pos>>
       \/ /\ files' = [files EXCEPT ![fh[p]] = WriteAt(@, pos[p], Head(body[p]))]
          /\ pos' = [pos EXCEPT ![p] = @ + 1]
          /\ body' = [body EXCEPT ![p] = Tail(@)]
          /\ pc' = [pc EXCEPT ![p] = IF Tail(body[p]) = <<>> THEN "seek" ELSE "copy"]
          /\ UNCHANGED <<fh, result, faults, hist>>
    /\ UNCHANGED <<dl, good, wrongLeft, cache_file, attempt, failures, hashed, verr,
                   report, callsLeft,
                   genVars, pureVars>>

\* file.seek(SeekFrom::Start(0)) after the download
Seek(p) ==
    /\ pc[p] = "seek"
    /\ \/ /\ Faulty(p)
          /\ ReturnErr(p, "ErrSeek")
          /\ UNCHANGED pos
       \/ /\ pos' = [pos EXCEPT ![p] = 0]
          /\ pc' = [pc EXCEPT ![p] = "size"]
          /\ UNCHANGED <<fh, files, result, faults, hist>>
    /\ UNCHANGED <<dl, good, wrongLeft, cache_file, attempt, failures, body, hashed,
                   verr, report, callsLeft,
                   genVars, pureVars>>

\* validate_mappings: output.metadata() and the size test
Size(p) ==
    /\ pc[p] = "size"
    /\ \/ /\ Faulty(p)
          /\ verr' = [verr EXCEPT ![p] = "io"]
          /\ pc' = [pc EXCEPT ![p] = "remove"]
          /\ UNCHANGED hashed
       \/ /\ IF SizeMatches(Len(files[fh[p]]), dl.size)
             THEN /\ pc' = [pc EXCEPT ![p] = "hash"]
                  /\ hashed' = [hashed EXCEPT ![p] = <<>>]
                  /\ UNCHANGED verr
             ELSE /\ pc' = [pc EXCEPT ![p] = "remove"]
                  /\ verr' = [verr EXCEPT ![p] = "size"]
                  /\ UNCHANGED hashed
          /\ UNCHANGED <<faults, hist>>
    /\ UNCHANGED <<dl, good, wrongLeft, cache_file, files, attempt, failures, fh, pos,
                   body, result, report, callsLeft,
                   genVars, pureVars>>

\* HashCode::verify: std::io::copy streams the file into the digest; at end
\* of file the digest is compared with the declared hash
Hash(p) ==
    /\ pc[p] = "hash"
    /\ \/ /\ pos[p] < Len(files[fh[p]])
          /\ \/ /\ Faulty(p)
                /\ verr' = [verr EXCEPT ![p] = "io"]
                /\ pc' = [pc EXCEPT ![p] = "remove"]
                /\ UNCHANGED <<hashed, pos>>
             \/ /\ hashed' = [hashed EXCEPT ![p] = Append(@, files[fh[p]][pos[p] + 1])]
                /\ pos' = [pos EXCEPT ![p] = @ + 1]
                /\ UNCHANGED <<verr, pc, faults, hist>>
       \/ /\ pos[p] >= Len(files[fh[p]])
          /\ IF HashMatches(hashed[p], dl.hash)
             THEN /\ pc' = [pc EXCEPT ![p] = "rewind"]
                  /\ UNCHANGED verr
             ELSE /\ pc' = [pc EXCEPT ![p] = "remove"]
                  /\ verr' = [verr EXCEPT ![p] = "hash"]
          /\ UNCHANGED <<hashed, pos, faults, hist>>
    /\ UNCHANGED <<dl, good, wrongLeft, cache_file, files, attempt, failures, fh, body,
                   result, report, callsLeft,
                   genVars, pureVars>>

\* A return that leaves the File where the digest stopped reading.
RewindSkipped(at) == at

\* Position of the returned File after the final file.seek(SeekFrom::Start(0))
RewindTo(at) == 0

\* validation passed: seek to start and `return Ok(file)`
Rewind(p) ==
    /\ pc[p] = "rewind"
    /\ \/ /\ Faulty(p)
          /\ ReturnErr(p, "ErrSeek")
          /\ UNCHANGED pos
       \/ /\ pos' = [pos EXCEPT ![p] = RewindTo(@)]
          /\ pc' = [pc EXCEPT ![p] = "done"]
          /\ result' = [result EXCEPT ![p] = "Ok"]
          /\ UNCHANGED <<fh, files, faults, hist>>
    /\ UNCHANGED <<dl, good, wrongLeft, cache_file, attempt, failures, body, hashed,
                   verr, report, callsLeft,
                   genVars, pureVars>>

\* A loop that runs one attempt too many.
LoopEndsLate(n) == n > MaxAttempts

\* The loop bound of `for _attempt in 0..5`
LoopEnds(n) == n >= MaxAttempts

\* The failures the final report carries: one "Suppressed" line per failure
Suppressed(fs) == fs

\* A removal that leaves the file linked at the path.
RemoveFileSkipped(linked) == linked

\* std::fs::remove_file(&cache_file), succeeding: what is linked at the path
RemoveFile(linked) == NoFile

\* validation failed: drop(file); failures.push(..); std::fs::remove_file;
\* then the next attempt, or the final error when the attempts are used up
Remove(p) ==
    /\ pc[p] = "remove"
    /\ fh' = [fh EXCEPT ![p] = NoFile]
    /\ failures' = [failures EXCEPT ![p] = Append(@, attempt[p])]
    /\ verr' = [verr EXCEPT ![p] = "none"]
    /\ \/ /\ Faulty(p)
          /\ pc' = [pc EXCEPT ![p] = "done"]
          /\ result' = [result EXCEPT ![p] = "ErrRemove"]
          /\ files' = Scrub(files, cache_file, fh')
          /\ UNCHANGED <<cache_file, attempt, report>>
       \/ /\ cache_file = NoFile
          /\ pc' = [pc EXCEPT ![p] = "done"]
          /\ result' = [result EXCEPT ![p] = "ErrRemove"]
          /\ files' = Scrub(files, cache_file, fh')
          /\ UNCHANGED <<cache_file, attempt, report, faults, hist>>
       \/ /\ cache_file # NoFile
          /\ cache_file' = RemoveFile(cache_file)
          /\ files' = Scrub(files, cache_file', fh')
          /\ attempt' = [attempt EXCEPT ![p] = @ + 1]
          /\ UNCHANGED hist
          /\ IF LoopEnds(attempt[p] + 1)
             THEN /\ pc' = [pc EXCEPT ![p] = "done"]
                  /\ result' = [result EXCEPT ![p] = "GaveUp"]
                  /\ report' = [report EXCEPT ![p] = Suppressed(failures'[p])]
             ELSE /\ pc' = [pc EXCEPT ![p] = "open"]
                  /\ UNCHANGED <<result, report>>
          /\ UNCHANGED faults
    /\ UNCHANGED <<dl, good, wrongLeft, pos, body, hashed, callsLeft,
                   genVars, pureVars>>

Step(p) ==
    \/ Call(p)
    \/ Open(p)
    \/ Mkdir(p)
    \/ Create(p)
    \/ Fetch(p)
    \/ Copy(p)
    \/ Seek(p)
    \/ Size(p)
    \/ Hash(p)
    \/ Rewind(p)
    \/ Remove(p)

Next == \E p \in Procs : Step(p)

Spec == Init /\ [][Next]_vars

SpecConc == InitConc /\ [][Next]_vars

(***************************************************************************)
(* Properties of load_mappings.                                            *)
(***************************************************************************)
Running(p) == pc[p] \notin {"idle", "done"}

Returned(p) == pc[p] = "done"

\* The call of p has deleted the cache file at least once.
Evicted(p) == attempt[p] >= 1

\* C1 - Cache self-heal: a call that finds a corrupt cache file, whose source
\* only ever sends the declared bytes and which meets no I/O fault, never
\* returns an error: it evicts the file once, downloads once and returns Ok
\* in its second attempt, holding the declared bytes.
C1_SelfHeal ==
    \A p \in Procs :
        (hist[p].start = "corrupt" /\ wrongLeft = 0 /\ ~hist[p].faulted /\ pc[p] # "idle")
            => /\ result[p] \in {"none", "Ok"}
               /\ attempt[p] <= 1
               /\ hist[p].fetches <= 1
               /\ Returned(p) =>
                     /\ result[p] = "Ok"
                     /\ Evicted(p)
                     /\ hist[p].fetches = 1
                     /\ fh[p] = cache_file
                     /\ files[fh[p]] = good

C1_Witness ==
    /\ Returned(1)
    /\ hist[1].start = "corrupt"
    /\ wrongLeft = 0
    /\ ~hist[1].faulted
    /\ result[1] = "Ok"
    /\ attempt[1] = 1
    /\ dl.hash.upper

\* C2 - Hash integrity: whatever the cache held and whatever the source
\* sent, a File returned with Ok holds exactly the declared bytes (their
\* length is the declared size when one is declared) and is positioned at
\* byte 0.
C2_HashIntegrity ==
    \A p \in Procs :
        (Returned(p) /\ result[p] = "Ok")
            => /\ fh[p] # NoFile
               /\ files[fh[p]] = good
               /\ pos[p] = 0
               /\ dl.size # NoSize => Len(files[fh[p]]) = dl.size

C2_Witness ==
    /\ Returned(1)
    /\ result[1] = "Ok"
    /\ hist[1].start = "corrupt"
    /\ attempt[1] = 2
    /\ Len(good) = MaxLen

\* The attempts before attempt n, in order.
RECURSIVE AttemptsBefore(_)
AttemptsBefore(n) == IF n = 0 THEN <<>> ELSE Append(AttemptsBefore(n - 1), n - 1)

Stage(at) ==
    CASE at = "open" -> 10
      [] at = "mkdir" -> 9
      [] at = "create" -> 8
      [] at = "fetch" -> 7
      [] at = "copy" -> 6
      [] at = "seek" -> 5
      [] at = "size" -> 4
      [] at = "hash" -> 3
      [] at = "rewind" -> 2
      [] at = "remove" -> 2
      [] OTHER -> 0

\* A natural number that every step of a call makes smaller.
Rank(p) ==
    IF ~Running(p) THEN 0
    ELSE (MaxAttempts - attempt[p]) * 11 * (MaxLen + 1)
         + Stage(pc[p]) * (MaxLen + 1)
         + (CASE pc[p] = "copy" -> Len(body[p])
              [] pc[p] = "hash" -> Len(files[fh[p]]) - pos[p]
              [] OTHER -> 0)

C3_Bounded ==
    \A p \in Procs :
        /\ attempt[p] <= MaxAttempts
        /\ Running(p) => attempt[p] < MaxAttempts
        /\ Len(failures[p]) <= MaxAttempts
        /\ result[p] = "GaveUp" =>
              /\ attempt[p] = MaxAttempts
              /\ failures[p] = AttemptsBefore(MaxAttempts)
              /\ report[p] = failures[p]
        /\ (Returned(p) /\ Len(failures[p]) = MaxAttempts /\ result[p] # "ErrRemove")
              => result[p] = "GaveUp"

C3_Decreases ==
    \A p \in Procs :
        (Running(p) /\ callsLeft'[p] = callsLeft[p])
            => /\ Rank(p)' < Rank(p)
               /\ Rank(p)' >= 0

\* C3 - Bounded retry: every step of a call lowers a natural-number rank, so
\* the call terminates; no attempt starts after the fifth; the final error is
\* returned exactly when five attempts failed validation and were evicted,
\* and it carries the five failures, one per attempt, in order.
C3_BoundedRetry == []C3_Bounded /\ [][C3_Decreases]_vars

C3_Witness ==
    /\ Returned(1)
    /\ result[1] = "GaveUp"
    /\ Len(report[1]) = MaxAttempts

\* A call that has given up leaves no file at the cache path.
C25_Gone ==
    \A p \in Procs :
        result[p] = "GaveUp" =>
            /\ cache_file = NoFile
            /\ Len(failures[p]) = MaxAttempts

\* A failed validation is followed by the next attempt or by the final
\* error only with the file deleted.
C25_DeletedFirst ==
    \A p \in Procs :
        (pc[p] = "remove" /\ (pc'[p] = "open" \/ result'[p] = "GaveUp"))
            => /\ cache_file # NoFile
               /\ cache_file' = NoFile

\* C25 - When load_mappings gives up after five failed validations no file
\* remains at the canonical cache path: every failed validation is followed
\* by the deletion of the file before the next attempt starts or the final
\* error is returned.
C25_NoFileLeft == []C25_Gone /\ [][C25_DeletedFirst]_vars

\* A call that found a corrupt file and then downloaded wrong bytes four
\* times has given up, and the cache path is empty.
C25_Witness ==
    /\ Returned(1)
    /\ result[1] = "GaveUp"
    /\ hist[1].start = "corrupt"
    /\ hist[1].fetches = MaxAttempts - 1
    /\ cache_file = NoFile

\* C4 - Cache invariant: a call that finds a file at the cache path whose
\* bytes are not the declared ones (whatever left it there, a failed download
\* of an earlier call included) returns no file, and passes no validation,
\* before it has deleted that file.
C4_CacheInvariant ==
    \A p \in Procs :
        (hist[p].start = "corrupt" /\ ~Evicted(p) /\ pc[p] # "idle")
            => /\ result[p] # "Ok"
               /\ pc[p] \in {"open", "size", "hash", "remove", "done"}
               /\ hist[p].fetches = 0

C4_Witness ==
    /\ Returned(1)
    /\ hist[1].prev = "ErrWrite"
    /\ hist[1].start = "corrupt"
    /\ result[1] = "Ok"
    /\ Evicted(1)

ValidationErrors == {"size", "hash", "io"}

\* The error a fault makes load_mappings return from each step.
ErrorAt(at) ==
    CASE at = "open" -> "ErrOpen"
      [] at = "mkdir" -> "ErrMkdir"
      [] at = "create" -> "ErrCreate"
      [] at = "fetch" -> "ErrFetch"
      [] at = "copy" -> "ErrWrite"
      [] at = "seek" -> "ErrSeek"
      [] at = "rewind" -> "ErrSeek"
      [] at = "remove" -> "ErrRemove"
      [] OTHER -> "none"

\* A new attempt starts only out of a failed validation whose file was deleted.
C5_RetryOnlyAfter(kinds) ==
    \A p \in Procs :
        attempt'[p] = attempt[p] + 1
            => /\ pc[p] = "remove"
               /\ verr[p] \in kinds
               /\ cache_file # NoFile
               /\ cache_file' = NoFile

\* A failed validation is followed by the deletion and, while attempts
\* remain, by the next attempt.
C5_ValidationRetries ==
    \A p \in Procs :
        (pc[p] = "remove" /\ pc'[p] # "remove" /\ faults' = faults /\ cache_file # NoFile)
            => /\ attempt'[p] = attempt[p] + 1
               /\ cache_file' = NoFile
               /\ attempt[p] + 1 < MaxAttempts => pc'[p] = "open"

\* Any other failure returns at once, whatever attempts remain.
C5_OthersReturn ==
    \A p \in Procs :
        (Running(p) /\ faults' = faults + 1 /\ pc[p] \notin {"size", "hash"})
            => /\ pc'[p] = "done"
               /\ result'[p] = ErrorAt(pc[p])
               /\ attempt'[p] = attempt[p]

\* C5 as claimed: only an integrity failure (a size or a hash mismatch)
\* starts another attempt.
C5_OnlyIntegrityRetried == [][C5_RetryOnlyAfter({"size", "hash"})]_vars

\* C5, amended: a failure of validate_mappings (a size mismatch, a hash
\* mismatch, or an I/O error while reading the file's size or bytes) makes
\* load_mappings delete the file and start the next attempt; a failure to
\* open, create the directory or file, fetch, write, seek or delete returns
\* that error at once, whatever attempts remain.
C5_Retry ==
    [][C5_RetryOnlyAfter(ValidationErrors) /\ C5_ValidationRetries /\ C5_OthersReturn]_vars

C5_Witness ==
    /\ Returned(1)
    /\ result[1] = "ErrFetch"
    /\ attempt[1] = 1
    /\ failures[1] = <<0>>

\* C6 - With two processes in load_mappings on the same entry, under any
\* interleaving of their steps, no process returns Ok holding a file whose
\* bytes, at the moment of the return, are not the declared ones.
C6_ReturnsValid ==
    [][\A p \in Procs :
          (pc[p] = "rewind" /\ result'[p] = "Ok") => files'[fh'[p]] = good]_vars

C7_Hit ==
    \A p \in Procs :
        (hist[p].start = "valid" /\ ~hist[p].faulted /\ pc[p] # "idle")
            => /\ hist[p].fetches = 0
               /\ attempt[p] = 0
               /\ pc[p] \in {"open", "size", "hash", "rewind", "done"}
               /\ cache_file # NoFile
               /\ files[cache_file] = good
               /\ Returned(p) => (result[p] = "Ok" /\ fh[p] = cache_file)

C7_FetchOnlyOnMiss ==
    \A p \in Procs :
        /\ hist'[p].fetches > hist[p].fetches => hist[p].lastOpen = "missing"
        /\ (hist[p].start = "valid" /\ ~hist'[p].faulted /\ Running(p))
              => (cache_file' = cache_file /\ files'[cache_file] = files[cache_file])

\* C7 - Cache hit: the source is fetched only in an attempt whose File::open
\* found no file; a call that finds the declared bytes and meets no fault
\* returns Ok in its first attempt without fetching, writing or deleting.
C7_CacheHit == []C7_Hit /\ [][C7_FetchOnlyOnMiss]_vars

C7_Witness ==
    /\ Returned(1)
    /\ hist[1].start = "valid"
    /\ result[1] = "Ok"
    /\ hist[1].fetches = 0
    /\ callsLeft[1] = 0

(***************************************************************************)
(* The type model: Type, Descriptor, MethodId (src/src/mappings.rs).       *)
(***************************************************************************)
\* Type::Void .. Type::Double, named by their source keyword
Prim(name) == [k |-> "prim", n |-> name, e |-> <<>>]

\* Type::Object(name)
Object(name) == [k |-> "obj", n |-> name, e |-> <<>>]

\* Type::Array(Box<Type>)
Array(ty) == [k |-> "arr", n |-> "", e |-> <<ty>>]

Descriptor(params, return_type) == [params |-> params, return_type |-> return_type]

MethodId(name, descriptor) == [name |-> name, descriptor |-> descriptor]

\* impl MapSelfOnlyClass for Type, with the class mapper a name table
RECURSIVE MapType(_, _)
MapType(ty, table) ==
    CASE ty.k = "obj" -> IF ty.n \in DOMAIN table THEN Object(table[ty.n]) ELSE ty
      [] ty.k = "arr" -> Array(MapType(ty.e[1], table))
      [] OTHER -> ty

\* A normalizer that leaves the descriptor in the primary naming.
DescriptorKept(d, table) == d

\* impl MapSelfOnlyClass for Descriptor
MapDescriptor(d, table) ==
    Descriptor([i \in DOMAIN d.params |-> MapType(d.params[i], table)],
               MapType(d.return_type, table))

(***************************************************************************)
(* The raw mapping normalizer (src/src/mappings/raw.rs).                   *)
(***************************************************************************)
\* Collecting (key, value) pairs into a HashMap: a later pair replaces an
\* earlier one with the same key.
CollectMap(pairs) ==
    [key \in {pairs[i][1] : i \in DOMAIN pairs} |->
        LET last == CHOOSE i \in DOMAIN pairs :
                        /\ pairs[i][1] = key
                        /\ \A j \in DOMAIN pairs : pairs[j][1] = key => j <= i
        IN  pairs[last][2]]

\* A flip that ignores should_flip.
DoFlipNever(should_flip, pair) == pair

\* do_flip

do_flip(should_flip, pair) ==
    IF should_flip THEN <<pair[2], pair[1]>> ELSE pair

convert_mappings(primary_nt, secondary_nt, v, raw, should_flip) ==
    LET class_mappings == CollectMap([i \in DOMAIN raw |-> raw[i].mapping])
        Method(m) ==
            do_flip(should_flip,
                    <<MethodId(m.mapping[1], m.descriptor),
                      MethodId(m.mapping[2], MapDescriptor(m.descriptor, class_mappings))>>)
        Class(c) ==
            LET names == do_flip(should_flip, c.mapping)
            IN  <<names[1],
                  [to_name |-> names[2],
                   methods |-> CollectMap([j \in DOMAIN c.methods |-> Method(c.methods[j])])]>>
        nts == do_flip(should_flip, <<primary_nt, secondary_nt>>)
    IN  [from |-> nts[1],
         to |-> nts[2],
         version |-> v,
         mappings |-> [classes |-> CollectMap([i \in DOMAIN raw |-> Class(raw[i])])]]

(***************************************************************************)
(* The mapping sources.  What upstream publishes for a version is fixed;   *)
(* two small published files per source stand for it.                      *)
(***************************************************************************)
Versions == {"1.19", "1.20"}

\* The proguard file of a version, parsed: Mojang name -> obfuscated name.
MojangFile(v) ==
    IF v = "1.19"
    THEN << [mapping |-> <<"net.Foo", "a">>,
             methods |-> << [descriptor |-> Descriptor(<<Object("net.Bar")>>, Prim("void")),
                             mapping |-> <<"run", "b">>] >>],
            [mapping |-> <<"net.Bar", "c">>, methods |-> <<>>] >>
    ELSE << [mapping |-> <<"net.Foo", "d">>, methods |-> <<>>] >>

\* The tiny-v2 file of a version, parsed: a mapped name may be absent.
FabricFile(v) ==
    IF v = "1.19"
    THEN << [primary_name |-> "a", mapped_names |-> << <<"net.class_1">> >>,
             methods |-> << [primary_desc |-> Descriptor(<<Object("c")>>, Prim("void")),
                             primary_name |-> "b",
                             mapped_names |-> << <<"method_1">> >>],
                            [primary_desc |-> Descriptor(<<>>, Prim("int")),
                             primary_name |-> "e",
                             mapped_names |-> << <<>> >>] >>],
            [primary_name |-> "c", mapped_names |-> << <<>> >>, methods |-> <<>>] >>
    ELSE << [primary_name |-> "d", mapped_names |-> << <<"net.class_2">> >>,
             methods |-> <<>>] >>

\* mapped_names.into_iter().next().expect(..)? yields a name
HasFirstName(entry) == entry.mapped_names[1] # <<>>

\* filter_map(..): the entries of seq that have a first mapped name, in order
RECURSIVE SelectNamed(_)
SelectNamed(seq) ==
    IF seq = <<>> THEN <<>>
    ELSE IF HasFirstName(Head(seq)) THEN <<Head(seq)>> \o SelectNamed(Tail(seq))
         ELSE SelectNamed(Tail(seq))

\* A loader that passes its flag on as should_flip.
MojangLoadUnnegated(v, moj_to_obf) ==
    convert_mappings("Mojang", "Obfuscated", v, MojangFile(v), moj_to_obf)

\* mojang::load(version, moj_to_obf), the download having succeeded
MojangLoad(v, moj_to_obf) ==
    convert_mappings("Mojang", "Obfuscated", v, MojangFile(v), ~moj_to_obf)

\* fabric_intermediary::load from raw::convert_mappings(..) on, for the
\* classes parse_tiny_v2 returned
FabricConvert(parsed, v, obf_to_fabric) ==
    LET classes == SelectNamed(parsed)
        Method(m) == [descriptor |-> m.primary_desc,
                      mapping |-> <<m.primary_name, m.mapped_names[1][1]>>]
        Class(c) ==
            LET ms == SelectNamed(c.methods)
            IN  [mapping |-> <<c.primary_name, c.mapped_names[1][1]>>,
                 methods |-> [j \in DOMAIN ms |-> Method(ms[j])]]
    IN  convert_mappings("Obfuscated", "FabricIntermediary", v,
                         [i \in DOMAIN classes |-> Class(classes[i])], ~obf_to_fabric)

\* fabric_intermediary::load(version, obf_to_fabric), the download having succeeded
FabricLoad(v, obf_to_fabric) == FabricConvert(FabricFile(v), v, obf_to_fabric)

\* MappingType::load
Load(mapping_type, v) ==
    CASE mapping_type = "ObfToMojang" -> MojangLoad(v, FALSE)
      [] mapping_type = "MojangToObf" -> MojangLoad(v, TRUE)
      [] mapping_type = "ObfToFabricIntermediary" -> FabricLoad(v, TRUE)
      [] mapping_type = "FabricIntermediaryToObf" -> FabricLoad(v, FALSE)

(***************************************************************************)
(* The mapping graph and the composer (src/src/mappings.rs).               *)
(***************************************************************************)
\* A graph without the edge from Obfuscated to FabricIntermediary.
MappingsGraphOneWay ==
    { <<"Obfuscated", "Mojang", "ObfToMojang">>,
      <<"Mojang", "Obfuscated", "MojangToObf">>,
      <<"FabricIntermediary", "Obfuscated", "FabricIntermediaryToObf">> }

\* MAPPINGS_GRAPH: (source, target, weight)
MAPPINGS_GRAPH ==
    { <<"Obfuscated", "Mojang", "ObfToMojang">>,
      <<"Mojang", "Obfuscated", "MojangToObf">>,
      <<"Obfuscated", "FabricIntermediary", "ObfToFabricIntermediary">>,
      <<"FabricIntermediary", "Obfuscated", "FabricIntermediaryToObf">> }

\* graph.edges(node): the targets of the edges leaving node
Neighbors(node) == {edge[2] : edge \in {x \in MAPPINGS_GRAPH : x[1] = node}}

\* MAPPINGS_GRAPH.edge_weight(a, b).expect(..)
EdgeWeight(a, b) == (CHOOSE edge \in MAPPINGS_GRAPH : edge[1] = a /\ edge[2] = b)[3]

\* PathTracker::reconstruct_path_to
RECURSIVE PathTo(_, _)
PathTo(node, predecessors) ==
    IF node \in DOMAIN predecessors
    THEN Append(PathTo(predecessors[node], predecessors), node)
    ELSE <<node>>

\* sanity_check_mapper's two assert_eq!
SanityCheck(m, expect_from, expect_to) == m.from = expect_from /\ m.to = expect_to

\* A composer that collects the mappers in reverse.
PushFront(ms, m) == <<m>> \o ms

\* mappers.push(..)
PushMapper(ms, m) == Append(ms, m)

\* A composer that takes every path for a single edge.
IsDirectAlways(nodes) == TRUE

\* `if path.len() == 2`
IsDirect(nodes) == Len(nodes) = 2

\* A composer that walks the path from its far end.
EdgeAtBackward(nodes, i) == <<nodes[Len(nodes) - i], nodes[Len(nodes) - i + 1]>>

\* (path[i], path[i + 1]), the edge the i-th load asks the graph for
EdgeAt(nodes, i) == <<nodes[i], nodes[i + 1]>>

\* A caller enters generate_mapper(version, from, to); astar sets up its maps.
Generate ==
    /\ gpc = "idle"
    /\ version' \in Versions
    /\ from' \in NamesType
    /\ to' \in NamesType
    /\ scores' = (from' :> 0)
    /\ visit_next' = {<<0, from'>>}
    /\ gpc' = "astar"
    /\ UNCHANGED <<estimate_scores, came_from, path, mappers, outcome, loads,
                   cacheVars, pureVars>>

\* One turn of astar's `while let Some(..) = visit_next.pop()` with edge
\* cost 1 and estimate 0; the heap orders entries by score alone.
AstarStep ==
    /\ gpc = "astar"
    /\ IF visit_next = {}
       THEN /\ outcome' = "ErrNoPath"
            /\ gpc' = "done"
            /\ UNCHANGED <<visit_next, scores, estimate_scores, came_from, path>>
       ELSE \E popped \in visit_next :
               /\ \A other \in visit_next : popped[1] <= other[1]
               /\ LET estimate_score == popped[1]
                      node == popped[2]
                      next_score == scores[node] + 1
                      better == {next \in Neighbors(node) :
                                    next \notin DOMAIN scores \/ scores[next] > next_score}
                  IN  IF node = to
                      THEN /\ path' = PathTo(node, came_from)
                           /\ gpc' = "assert"
                           /\ visit_next' = visit_next \ {popped}
                           /\ UNCHANGED <<scores, estimate_scores, came_from, outcome>>
                      ELSE IF /\ node \in DOMAIN estimate_scores
                              /\ estimate_scores[node] <= estimate_score
                      THEN /\ visit_next' = visit_next \ {popped}
                           /\ UNCHANGED <<scores, estimate_scores, came_from, path,
                                          gpc, outcome>>
                      ELSE /\ estimate_scores' =
                                 [n \in DOMAIN estimate_scores \cup {node} |->
                                     IF n = node THEN estimate_score ELSE estimate_scores[n]]
                           /\ scores' =
                                 [n \in DOMAIN scores \cup better |->
                                     IF n \in better THEN next_score ELSE scores[n]]
                           /\ came_from' =
                                 [n \in DOMAIN came_from \cup better |->
                                     IF n \in better THEN node ELSE came_from[n]]
                           /\ visit_next' =
                                 (visit_next \ {popped}) \cup {<<next_score, next>> : next \in better}
                           /\ UNCHANGED <<path, gpc, outcome>>
    /\ UNCHANGED <<version, from, to, mappers, loads, cacheVars, pureVars>>

\* assert!(path.len() >= 2, "Path must have at least two elements")
AssertPath ==
    /\ gpc = "assert"
    /\ IF Len(path) >= 2
       THEN /\ gpc' = "load"
            /\ UNCHANGED outcome
       ELSE /\ gpc' = "done"
            /\ outcome' = "Panic"
    /\ UNCHANGED <<version, from, to, visit_next, scores, estimate_scores,
                   came_from, path, mappers, loads, cacheVars, pureVars>>

\* The load of the next edge of the path: it fails, or yields a mapper that
\* passes or fails sanity_check_mapper; the direct case returns a base
\* mapper, the last edge of a longer path a MultiMapper.
LoadEdge ==
    /\ gpc = "load"
    /\ LET i == Len(mappers) + 1
           edge == EdgeAt(path, i)
           m == Load(EdgeWeight(edge[1], edge[2]), version)
           sane == IF IsDirect(path)
                   THEN SanityCheck(m, from, to)
                   ELSE SanityCheck(m, path[i], path[i + 1])
       IN  \/ /\ outcome' = "ErrLoad"
              /\ gpc' = "done"
              /\ mappers' = <<>>
              /\ loads' = Append(loads, [edge |-> edge, ok |-> FALSE])
           \/ /\ ~sane
              /\ outcome' = "Panic"
              /\ gpc' = "done"
              /\ mappers' = <<>>
              /\ loads' = Append(loads, [edge |-> edge, ok |-> TRUE])
           \/ /\ sane
              /\ mappers' = PushMapper(mappers, m)
              /\ loads' = Append(loads, [edge |-> edge, ok |-> TRUE])
              /\ IF IsDirect(path)
                 THEN outcome' = "Base" /\ gpc' = "done"
                 ELSE IF i = Len(path) - 1
                      THEN outcome' = "Multi" /\ gpc' = "done"
                      ELSE UNCHANGED <<outcome, gpc>>
    /\ UNCHANGED <<version, from, to, visit_next, scores, estimate_scores,
                   came_from, path, cacheVars, pureVars>>

\* The cache stays as it is while generate_mapper is looked at on its own.
CacheIdle ==
    /\ good = <<>>
    /\ dl = [hash |-> LowerHex(Digest(good)), size |-> NoSize]
    /\ cache_file = NoFile
    /\ files = [i \in Inodes |-> <<>>]
    /\ pc = [p \in Procs |-> "idle"]
    /\ attempt = [p \in Procs |-> 0]
    /\ failures = [p \in Procs |-> <<>>]
    /\ fh = [p \in Procs |-> NoFile]
    /\ pos = [p \in Procs |-> 0]
    /\ body = [p \in Procs |-> <<>>]
    /\ hashed = [p \in Procs |-> <<>>]
    /\ verr = [p \in Procs |-> "none"]
    /\ result = [p \in Procs |-> "none"]
    /\ report = [p \in Procs |-> <<>>]
    /\ hist = [p \in Procs |-> IdleHist]
    /\ callsLeft = [p \in Procs |-> 0]
    /\ faults = 0
    /\ wrongLeft = 0

InitGen == CacheIdle /\ GenIdle /\ PureIdle

NextGen == Generate \/ AstarStep \/ AssertPath \/ LoadEdge

SpecGen == InitGen /\ [][NextGen]_vars

(***************************************************************************)
(* Properties of generate_mapper.                                          *)
(***************************************************************************)
IsEdge(a, b) == \E edge \in MAPPINGS_GRAPH : edge[1] = a /\ edge[2] = b

\* C8 - Composer adjacency: in every composite mapper generate_mapper
\* returns, each base mapper ends in the naming scheme the next one starts
\* from, the first starts from the requested from and the last ends in the
\* requested to.
C8_Adjacency ==
    outcome = "Multi"
        => /\ Len(mappers) >= 1
           /\ \A i \in 1..(Len(mappers) - 1) : mappers[i].to = mappers[i + 1].from
           /\ mappers[1].from = from
           /\ mappers[Len(mappers)].to = to

C8_Witness ==
    /\ outcome = "Multi"
    /\ from = "FabricIntermediary"
    /\ to = "Mojang"
    /\ Len(mappers) = 2

\* C9 - generate_mapper(v, Mojang, FabricIntermediary) whose edge loads
\* succeed returns a composite of exactly two base mappers, Mojang ->
\* Obfuscated then Obfuscated -> FabricIntermediary; a pair joined by an edge
\* of the graph yields one base mapper from -> to, not a composite.
C9_TwoStep ==
    (gpc = "done" /\ outcome # "ErrLoad")
        => /\ (from = "Mojang" /\ to = "FabricIntermediary")
                 => /\ outcome = "Multi"
                    /\ Len(mappers) = 2
                    /\ mappers[1].from = "Mojang"
                    /\ mappers[1].to = "Obfuscated"
                    /\ mappers[2].from = "Obfuscated"
                    /\ mappers[2].to = "FabricIntermediary"
                    /\ mappers[1].version = version
                    /\ mappers[2].version = version
           /\ IsEdge(from, to)
                 => /\ outcome = "Base"
                    /\ Len(mappers) = 1
                    /\ mappers[1].from = from
                    /\ mappers[1].to = to

C9_Witness ==
    /\ gpc = "done"
    /\ from = "Mojang"
    /\ to = "FabricIntermediary"
    /\ outcome = "Multi"
    /\ "net.Foo" \in DOMAIN mappers[1].mappings.classes
    /\ "a" \in DOMAIN mappers[2].mappings.classes

\* C11 - The edge loaders run one at a time in path order: the k-th load
\* invoked is the load of edge (path[k], path[k+1]); a load is invoked only
\* when every earlier one succeeded, and a failed load is the last one, the
\* call being over with that failure as its result.
C11_LoadsInPathOrder ==
    /\ \A k \in 1..Len(loads) :
          /\ k <= Len(path) - 1
          /\ loads[k].edge = <<path[k], path[k + 1]>>
          /\ k < Len(loads) => loads[k].ok
    /\ (loads # <<>> /\ ~loads[Len(loads)].ok) => (gpc = "done" /\ outcome = "ErrLoad")
    /\ outcome = "ErrLoad" => (loads # <<>> /\ ~loads[Len(loads)].ok)
    /\ outcome \in {"Base", "Multi"} =>
          (Len(loads) = Len(path) - 1 /\ \A k \in 1..Len(loads) : loads[k].ok)

C11_Witness ==
    /\ outcome = "ErrLoad"
    /\ Len(path) = 3
    /\ Len(loads) = 1
    /\ loads[1] = [edge |-> <<path[1], path[2]>>, ok |-> FALSE]

\* C10 - Self-mapping: generate_mapper(v, X, X) returns an error value or a
\* mapper; it does not abort the process.
C10_SelfMapping ==
    (gpc = "done" /\ from = to) => outcome \in {"ErrNoPath", "ErrLoad", "Base", "Multi"}

\* C24 - Each of the four edge loaders yields a base mapper whose (from, to)
\* is the (source, target) of its edge, so every mapper generate_mapper
\* holds runs along the edge it was loaded for and the sanity assertions
\* after a load never fail, whatever pair was requested.
C24_Orientation ==
    /\ \A edge \in MAPPINGS_GRAPH, v \in Versions :
          /\ Load(edge[3], v).from = edge[1]
          /\ Load(edge[3], v).to = edge[2]
    /\ \A k \in 1..Len(mappers) :
          /\ mappers[k].from = loads[k].edge[1]
          /\ mappers[k].to = loads[k].edge[2]
    /\ outcome = "Panic" => loads = <<>>

\* The loader of the edge Obfuscated -> Mojang, which flips the file it
\* parsed, passed the sanity assertions of the direct case.
C24_Witness ==
    /\ gpc = "done"
    /\ outcome = "Base"
    /\ loads = <<[edge |-> <<"Obfuscated", "Mojang">>, ok |-> TRUE]>>
    /\ mappers[1].from = "Obfuscated"
    /\ mappers[1].to = "Mojang"
    /\ "a" \in DOMAIN mappers[1].mappings.classes

\* The naming schemes at most k edges away from a.
RECURSIVE Within(_, _)
Within(a, k) ==
    IF k = 0 THEN {a}
    ELSE Within(a, k - 1) \cup UNION {Neighbors(n) : n \in Within(a, k - 1)}

\* The number of edges of a shortest path from a to b, b being reachable.
Distance(a, b) ==
    CHOOSE k \in 0..Cardinality(NamesType) :
        /\ b \in Within(a, k)
        /\ \A j \in 0..(k - 1) : b \notin Within(a, j)

\* astar has returned a path.
PathFound == gpc \in {"assert", "load"} \/ (gpc = "done" /\ outcome # "ErrNoPath")

\* C26 - In the mapping graph as initialised, for every ordered pair of
\* distinct naming schemes the path search finds a path from from to to
\* along edges of the graph; it is a shortest one and has one or two edges,
\* two only between Mojang and FabricIntermediary, through Obfuscated; the
\* 'no path' error is never returned for distinct from and to.
C26_PathFound ==
    from # to =>
        /\ outcome # "ErrNoPath"
        /\ PathFound =>
              /\ path[1] = from
              /\ path[Len(path)] = to
              /\ \A i \in 1..(Len(path) - 1) : IsEdge(path[i], path[i + 1])
              /\ Len(path) - 1 = Distance(from, to)
              /\ Len(path) \in {2, 3}
              /\ Len(path) = 3 <=> {from, to} = {"Mojang", "FabricIntermediary"}
              /\ Len(path) = 3 => path[2] = "Obfuscated"

\* astar returned Mojang, Obfuscated, FabricIntermediary and no edge is
\* loaded yet.
C26_Witness ==
    /\ gpc = "load"
    /\ loads = <<>>
    /\ path = <<"Mojang", "Obfuscated", "FabricIntermediary">>

(***************************************************************************)
(* Mapper lookups (src/src/mappings.rs): BaseMapper and MultiMapper.       *)
(***************************************************************************)
\* Option::None and Option::Some(x)
None == <<>>

Some(x) == <<x>>

Reverse(s) == [i \in DOMAIN s |-> s[Len(s) + 1 - i]]

\* HashMap::iter / HashMap::values: every key once, in an order the hasher
\* fixes and the program does not choose.
Iterate(map, reversed) ==
    LET keys == DOMAIN map
        order == CHOOSE q \in [1..Cardinality(keys) -> keys] :
                     \A k \in keys : \E i \in 1..Cardinality(keys) : q[i] = k
    IN  IF reversed THEN Reverse(order) ELSE order

\* flat_map(..).collect() over a sequence of vectors
RECURSIVE Flatten(_)
Flatten(lists) ==
    IF lists = <<>> THEN <<>> ELSE Head(lists) \o Flatten(Tail(lists))

\* extract_method
extract_method(name, descriptor, c, reversed) ==
    IF descriptor # None
    THEN LET key == MethodId(name, descriptor[1])
         IN  IF key \in DOMAIN c.methods
             THEN << <<c.to_name, c.methods[key]>> >>
             ELSE <<>>
    ELSE LET keys == Iterate(c.methods, reversed)
             hits == SelectSeq(keys, LAMBDA k : k.name = name)
         IN  [i \in DOMAIN hits |-> <<c.to_name, c.methods[hits[i]]>>]

\* BaseMapper::map_class
BaseMapClass(m, name) ==
    IF name \in DOMAIN m.mappings.classes
    THEN Some(m.mappings.classes[name].to_name)
    ELSE None

\* A lookup that never takes the scoped result.
ScopedIgnored(scoped_result) == FALSE

\* `if !scoped_result.is_empty()`
ScopedFound(scoped_result) == scoped_result # <<>>

\* A lookup that returns whatever the search of all classes finds.
UnambiguousAlways(unscoped_result) == TRUE

\* `if unscoped_result.len() <= 1`
Unambiguous(unscoped_result) == Len(unscoped_result) <= 1

\* BaseMapper::map_method
BaseMapMethod(m, from_class_name, name, descriptor, reversed) ==
    LET classes == m.mappings.classes
        scoped_result ==
            IF from_class_name \in DOMAIN classes
            THEN extract_method(name, descriptor, classes[from_class_name], reversed)
            ELSE <<>>
        values == Iterate(classes, reversed)
        unscoped_result ==
            Flatten([i \in DOMAIN values |->
                        extract_method(name, descriptor, classes[values[i]], reversed)])
    IN  IF ScopedFound(scoped_result) THEN scoped_result
        ELSE IF Unambiguous(unscoped_result) THEN unscoped_result
        ELSE <<>>

\* A composite that answers with the last name it reached.
MissingKeepsName(ret_name) == ret_name

\* `mapper.map_class(push_name)?` on a step without a mapping
Missing(ret_name) == None

\* MultiMapper::map_class, from the i-th mapper on
RECURSIVE MultiMapClassFrom(_, _, _, _)
MultiMapClassFrom(ms, i, push_name, ret_name) ==
    IF i > Len(ms) THEN ret_name
    ELSE LET mapped_name == BaseMapClass(ms[i], push_name)
         IN  IF mapped_name = None
             THEN Missing(ret_name)
             ELSE MultiMapClassFrom(ms, i + 1, mapped_name[1], mapped_name)

MultiMapClass(ms, name) == MultiMapClassFrom(ms, 1, name, None)

\* A composite that keeps the results of the earlier steps.
ClearSkipped(ret_ids) == ret_ids

\* ret_ids.clear()
Clear(ret_ids) == <<>>

\* A composite that leaves the consumed inputs in push_data.
DrainSkipped(push_data) == push_data

\* what push_data.drain(..) leaves behind
Drain(push_data) == <<>>

\* MultiMapper::map_method, from the i-th mapper on
RECURSIVE MultiMapMethodFrom(_, _, _, _, _)
MultiMapMethodFrom(ms, i, push_data, ret_ids, reversed) ==
    IF i > Len(ms) THEN ret_ids
    ELSE LET mapped ==
                 Clear(ret_ids) \o
                 Flatten([j \in DOMAIN push_data |->
                             BaseMapMethod(ms[i], push_data[j][1], push_data[j][2],
                                           push_data[j][3], reversed)])
             next_push ==
                 Drain(push_data) \o
                 [j \in DOMAIN mapped |->
                     <<mapped[j][1], mapped[j][2].name, Some(mapped[j][2].descriptor)>>]
         IN  MultiMapMethodFrom(ms, i + 1, next_push, mapped, reversed)

MultiMapMethod(ms, from_class_name, name, descriptor, reversed) ==
    MultiMapMethodFrom(ms, 1, << <<from_class_name, name, descriptor>> >>, <<>>, reversed)

(***************************************************************************)
(* Raw inputs for the lookups: up to MaxClasses classes over two class     *)
(* names, each with up to MaxMethods of the methods below.  Class names    *)
(* may repeat on either side, as a published file may repeat them.         *)
(***************************************************************************)
MaxClasses == 2
MaxMethods == 2
MaxChain == 2

ClassNames == {"a", "b"}

\* A class name no raw input maps.
QueryClasses == ClassNames \cup {"z"}

MethodNames == {"m", "n"}

RawMethodList ==
    << [descriptor |-> Descriptor(<<>>, Prim("void")), mapping |-> <<"m", "n">>],
       [descriptor |-> Descriptor(<<Object("a")>>, Prim("void")), mapping |-> <<"m", "m">>],
       [descriptor |-> Descriptor(<<>>, Prim("void")), mapping |-> <<"n", "m">>],
       [descriptor |-> Descriptor(<<>>, Prim("void")), mapping |-> <<"m", "m">>] >>

\* The entries of list at the indices in picked, in the order of list.
Pick(list, picked) ==
    LET idx == SelectSeq([i \in DOMAIN list |-> i], LAMBDA i : i \in picked)
    IN  [j \in DOMAIN idx |-> list[idx[j]]]

MethodLists ==
    {Pick(RawMethodList, picked) :
        picked \in {x \in SUBSET DOMAIN RawMethodList : Cardinality(x) <= MaxMethods}}

RawClassMappings ==
    [mapping : ClassNames \X ClassNames, methods : MethodLists]

RawInputs == UNION {[1..n -> RawClassMappings] : n \in 0..MaxClasses}

\* Descriptors a caller may pass: none, or one of the descriptors a mapper
\* can hold on either side.
QueryDescriptors ==
    {None} \cup {Some(Descriptor(<<>>, Prim("void")))}
           \cup {Some(Descriptor(<<Object(c)>>, Prim("void"))) : c \in ClassNames}

\* The mapper a source builds from the raw input, in either direction.
Mapper(should_flip) ==
    convert_mappings("Obfuscated", "Mojang", "1.19", rawClasses, should_flip)

\* A MultiMapper whose i-th mapper is built with should_flip = flips[i].
Chain(flips) == [i \in DOMAIN flips |-> Mapper(flips[i])]

Chains == UNION {[1..n -> BOOLEAN] : n \in 1..MaxChain}

InitMap ==
    /\ CacheIdle
    /\ GenIdle
    /\ rawClasses \in RawInputs
    /\ hasher \in BOOLEAN
    /\ stdin = <<>>
    /\ tiny = <<>>
    /\ call = [op |-> "none"]

MapClass ==
    /\ call.op = "none"
    /\ \E should_flip \in BOOLEAN, name \in QueryClasses :
        /\ call' = [op |-> "map_class", should_flip |-> should_flip, name |-> name,
                    ret |-> BaseMapClass(Mapper(should_flip), name)]
        /\ UNCHANGED <<rawClasses, hasher, stdin, tiny, cacheVars, genVars>>

\* forward.map_class(name), then inverse.map_class of what it returned
RoundTrip ==
    /\ call.op = "none"
    /\ \E name \in QueryClasses :
        /\ BaseMapClass(Mapper(FALSE), name) # None
        /\ LET there == BaseMapClass(Mapper(FALSE), name)
           IN  call' = [op |-> "round_trip", name |-> name, there |-> there,
                        ret |-> BaseMapClass(Mapper(TRUE), there[1])]
        /\ UNCHANGED <<rawClasses, hasher, stdin, tiny, cacheVars, genVars>>

MapMethod ==
    /\ call.op = "none"
    /\ \E should_flip \in BOOLEAN, cls \in QueryClasses, name \in MethodNames,
          descriptor \in QueryDescriptors :
        /\ call' = [op |-> "map_method", should_flip |-> should_flip, cls |-> cls,
                    name |-> name, descriptor |-> descriptor,
                    ret |-> BaseMapMethod(Mapper(should_flip), cls, name, descriptor,
                                          hasher)]
        /\ UNCHANGED <<rawClasses, hasher, stdin, tiny, cacheVars, genVars>>

MultiClass ==
    /\ call.op = "none"
    /\ \E flips \in Chains, name \in QueryClasses :
        /\ call' = [op |-> "multi_map_class", flips |-> flips, name |-> name,
                    ret |-> MultiMapClass(Chain(flips), name)]
        /\ UNCHANGED <<rawClasses, hasher, stdin, tiny, cacheVars, genVars>>

MultiMethod ==
    /\ call.op = "none"
    /\ \E flips \in Chains, cls \in QueryClasses, name \in MethodNames,
          descriptor \in QueryDescriptors :
        /\ call' = [op |-> "multi_map_method", flips |-> flips, cls |-> cls,
                    name |-> name, descriptor |-> descriptor,
                    ret |-> MultiMapMethod(Chain(flips), cls, name, descriptor, hasher)]
        /\ UNCHANGED <<rawClasses, hasher, stdin, tiny, cacheVars, genVars>>

\* convert_mappings on the same raw input with should_flip false and true
Convert ==
    /\ call.op = "none"
    /\ call' = [op |-> "convert_mappings", ret |-> <<Mapper(FALSE), Mapper(TRUE)>>]
    /\ UNCHANGED <<rawClasses, hasher, stdin, tiny, cacheVars, genVars>>

NextMap == MapClass \/ RoundTrip \/ MapMethod \/ MultiClass \/ MultiMethod \/ Convert

SpecMap == InitMap /\ [][NextMap]_vars

(***************************************************************************)
(* Properties of the mapper lookups.                                       *)
(***************************************************************************)
\* The keys of class c's methods that match name, and descriptor when given.
Matching(c, name, descriptor) ==
    {k \in DOMAIN c.methods :
        k.name = name /\ (descriptor = None \/ k.descriptor = descriptor[1])}

\* list holds one pair (to_name, target MethodId) for each key in keys, in
\* some order.
IsArrangement(list, to_name, methods, keys) ==
    /\ Len(list) = Cardinality(keys)
    /\ \E f \in [1..Len(list) -> keys] :
          /\ \A k \in keys : \E i \in 1..Len(list) : f[i] = k
          /\ \A i \in 1..Len(list) : list[i] = <<to_name, methods[f[i]]>>

\* The classes of the mapper that have a method called name.
Owners(classes, name) ==
    {c \in DOMAIN classes : \E k \in DOMAIN classes[c].methods : k.name = name}

\* C12 - Unscoped ambiguity suppression: map_method(cls, name, None) with
\* cls not a key of the mappings and name a method name in two or more
\* classes returns an empty list.
C12_AmbiguitySuppressed ==
    (call.op = "map_method" /\ call.descriptor = None) =>
        LET classes == Mapper(call.should_flip).mappings.classes
        IN  (call.cls \notin DOMAIN classes /\ Cardinality(Owners(classes, call.name)) >= 2)
                => call.ret = <<>>

C12_Witness ==
    /\ call.op = "map_method"
    /\ call.descriptor = None
    /\ call.cls = "z"
    /\ Cardinality(Owners(Mapper(call.should_flip).mappings.classes, call.name)) >= 2
    /\ call.ret = <<>>

\* C13 as stated - Map-class round-trip: for the forward and inverse mappers
\* built from the same raw input, every class c with forward.map_class(c)
\* defined has inverse.map_class(forward.map_class(c)) = c.
C13_RoundTripAny ==
    call.op = "round_trip" => call.ret = Some(call.name)

\* No two classes of the raw input with different primary names share a
\* secondary name.
OneToOne(classes) ==
    \A i \in DOMAIN classes, j \in DOMAIN classes :
        classes[i].mapping[2] = classes[j].mapping[2]
            => classes[i].mapping[1] = classes[j].mapping[1]

\* C13 - Map-class round-trip: for the forward and inverse mappers built
\* from the same raw input in which no two classes with different primary
\* names share a secondary name, every class c with forward.map_class(c)
\* defined has inverse.map_class(forward.map_class(c)) = c.
C13_RoundTrip ==
    (call.op = "round_trip" /\ OneToOne(rawClasses)) => call.ret = Some(call.name)

C13_Witness ==
    /\ call.op = "round_trip"
    /\ OneToOne(rawClasses)
    /\ Len(rawClasses) = 2
    /\ rawClasses[1].mapping[1] # rawClasses[2].mapping[1]
    /\ call.there # Some(call.name)
    /\ call.ret = Some(call.name)

\* C18 - map_method lookup order: when the class is a key and has methods
\* matching (name, descriptor) - name alone without a descriptor - the
\* result is that class's matching entries and nothing else; otherwise all
\* classes are searched and the result is the one match when there is
\* exactly one, and empty when there is none or more than one; each pair is
\* (owning class's to_name, target MethodId).
C18_LookupOrder ==
    call.op = "map_method" =>
        LET classes == Mapper(call.should_flip).mappings.classes
            scoped == IF call.cls \in DOMAIN classes
                      THEN Matching(classes[call.cls], call.name, call.descriptor)
                      ELSE {}
            all == UNION {{<<c, k>> : k \in Matching(classes[c], call.name, call.descriptor)} :
                             c \in DOMAIN classes}
        IN  IF scoped # {}
            THEN IsArrangement(call.ret, classes[call.cls].to_name,
                               classes[call.cls].methods, scoped)
            ELSE IF Cardinality(all) = 1
                 THEN \E e \in all :
                         call.ret = << <<classes[e[1]].to_name, classes[e[1]].methods[e[2]]>> >>
                 ELSE call.ret = <<>>

C18_Witness ==
    /\ call.op = "map_method"
    /\ call.descriptor = None
    /\ LET classes == Mapper(call.should_flip).mappings.classes
       IN  /\ call.cls \in DOMAIN classes
           /\ Cardinality(Matching(classes[call.cls], call.name, None)) = 2
           /\ Cardinality(Owners(classes, call.name)) = 2
    /\ Len(call.ret) = 2

\* C19 - Composite map_class threads the name through every base mapper in
\* order and returns the last step's output; when some step has no mapping
\* for its input the result is none, never an intermediate name.
C19_Thread ==
    call.op = "multi_map_class" =>
        LET ms == Chain(call.flips)
            n == Len(ms)
            threads == {t \in [0..n -> QueryClasses] :
                           /\ t[0] = call.name
                           /\ \A i \in 1..n : BaseMapClass(ms[i], t[i - 1]) = Some(t[i])}
        IN  IF threads = {}
            THEN call.ret = None
            ELSE \E t \in threads : call.ret = Some(t[n])

C19_Witness ==
    /\ call.op = "multi_map_class"
    /\ Len(call.flips) = 2
    /\ LET ms == Chain(call.flips)
           first == BaseMapClass(ms[1], call.name)
       IN  /\ first # None
           /\ first # Some(call.name)
           /\ BaseMapClass(ms[2], first[1]) = None
    /\ call.ret = None

\* The candidates (class, name, descriptor) a composite holds after i steps.
RECURSIVE Candidates(_, _, _)
Candidates(ms, i, first) ==
    IF i = 0 THEN <<first>>
    ELSE LET prev == Candidates(ms, i - 1, first)
             Mapped(j) == BaseMapMethod(ms[i], prev[j][1], prev[j][2], prev[j][3], hasher)
             Fed(j) == [x \in DOMAIN Mapped(j) |->
                            <<Mapped(j)[x][1], Mapped(j)[x][2].name,
                              Some(Mapped(j)[x][2].descriptor)>>]
         IN  Flatten([j \in DOMAIN prev |-> Fed(j)])

\* C20 - Composite map_method returns exactly the list the last base mapper
\* produces: every candidate of the step before is mapped by the last
\* mapper's map_method and the results are concatenated in the order of
\* those candidates; no result of an earlier step is in the list.
C20_LastStep ==
    call.op = "multi_map_method" =>
        LET ms == Chain(call.flips)
            n == Len(ms)
            prev == Candidates(ms, n - 1, <<call.cls, call.name, call.descriptor>>)
        IN  call.ret =
                Flatten([j \in DOMAIN prev |->
                            BaseMapMethod(ms[n], prev[j][1], prev[j][2], prev[j][3], hasher)])

C20_Witness ==
    /\ call.op = "multi_map_method"
    /\ Len(call.flips) = 2
    /\ Len(call.ret) = 2
    /\ call.ret[1] # call.ret[2]
    /\ LET earlier == BaseMapMethod(Chain(call.flips)[1], call.cls, call.name,
                                    call.descriptor, hasher)
       IN  /\ Len(earlier) = 2
           /\ \A i \in 1..2, j \in 1..2 : call.ret[i] # earlier[j]

\* C27 - In a composite map_method, once a step produces no candidate every
\* later step receives no candidate and the result is empty: nothing in the
\* naming of an intermediate step is returned.
C27_EmptyStays ==
    call.op = "multi_map_method" =>
        LET ms == Chain(call.flips)
            first == <<call.cls, call.name, call.descriptor>>
        IN  \A i \in 1..Len(ms) :
                Candidates(ms, i, first) = <<>> =>
                    /\ \A k \in i..Len(ms) : Candidates(ms, k, first) = <<>>
                    /\ call.ret = <<>>

\* The first of two steps produced candidates, the second none of them
\* mapped, and the composite returned nothing.
C27_Witness ==
    /\ call.op = "multi_map_method"
    /\ Len(call.flips) = 2
    /\ LET ms == Chain(call.flips)
           first == <<call.cls, call.name, call.descriptor>>
       IN  /\ Candidates(ms, 1, first) # <<>>
           /\ Candidates(ms, 2, first) = <<>>
    /\ call.ret = <<>>

\* The class entries of a mapper: (key, to_name, its (key, value) method pairs).
Entries(m) ==
    {<<c, m.mappings.classes[c].to_name,
       {<<k, m.mappings.classes[c].methods[k]>> : k \in DOMAIN m.mappings.classes[c].methods}>> :
        c \in DOMAIN m.mappings.classes}

\* The entries with key and to_name swapped and every method pair swapped.
Swapped(entries) ==
    {<<e[2], e[1], {<<pair[2], pair[1]>> : pair \in e[3]}>> : e \in entries}

\* flipped is forward with from and to swapped, each class rekeyed on its
\* to_name and every method entry turned around.
IsFlipOf(flipped, forward) ==
    /\ flipped.from = forward.to
    /\ flipped.to = forward.from
    /\ flipped.version = forward.version
    /\ Entries(flipped) = Swapped(Entries(forward))

\* C21 as stated - Flip equivalence: for every raw input, convert_mappings
\* with should_flip = true yields the should_flip = false result with from
\* and to swapped, the classes rekeyed on their secondary names and every
\* method entry's key and value swapped.
C21_FlipAny ==
    call.op = "convert_mappings" => IsFlipOf(call.ret[2], call.ret[1])

\* The class names of the raw input, primary to secondary.
RawClassTable(raw) == CollectMap([i \in DOMAIN raw |-> raw[i].mapping])

\* The descriptor with every class name that has a raw class mapping
\* replaced by its secondary name.
Remapped(d, raw) ==
    Descriptor([i \in DOMAIN d.params |-> MapType(d.params[i], RawClassTable(raw))],
               MapType(d.return_type, RawClassTable(raw)))

\* The (primary, secondary) method ids a raw method stands for.
MethodPair(method, raw) ==
    <<MethodId(method.mapping[1], method.descriptor),
      MethodId(method.mapping[2], Remapped(method.descriptor, raw))>>

\* No two entries of seq agree on Key.
Distinct(seq, Key(_)) ==
    \A i, j \in DOMAIN seq : Key(seq[i]) = Key(seq[j]) => i = j

\* No two classes share a primary name or a secondary name, and within a
\* class no two methods share a primary id or a secondary id.
WellFormed(raw) ==
    /\ Distinct(raw, LAMBDA c : c.mapping[1])
    /\ Distinct(raw, LAMBDA c : c.mapping[2])
    /\ \A i \in DOMAIN raw :
        /\ Distinct(raw[i].methods, LAMBDA m : MethodPair(m, raw)[1])
        /\ Distinct(raw[i].methods, LAMBDA m : MethodPair(m, raw)[2])

\* Every raw method is held by the flipped mapper under its class's
\* secondary name, keyed on the secondary id with the primary id as value.
FlippedHolds(flipped, raw) ==
    \A i \in DOMAIN raw :
        /\ raw[i].mapping[2] \in DOMAIN flipped.mappings.classes
        /\ flipped.mappings.classes[raw[i].mapping[2]].to_name = raw[i].mapping[1]
        /\ \A j \in DOMAIN raw[i].methods :
            LET pair == MethodPair(raw[i].methods[j], raw)
                methods == flipped.mappings.classes[raw[i].mapping[2]].methods
            IN  /\ pair[2] \in DOMAIN methods
                /\ methods[pair[2]] = pair[1]

\* C21 - Flip equivalence: for every raw input in which no two classes share
\* a primary or a secondary name and no two methods of a class share a
\* primary or a secondary id, convert_mappings with should_flip = true
\* yields the should_flip = false result with from and to swapped, each
\* class rekeyed on its secondary name with the primary name as to_name,
\* and every method entry's key and value swapped, the key holding the
\* secondary name with the remapped descriptor and the value the primary
\* name with the primary descriptor.
C21_Flip ==
    (call.op = "convert_mappings" /\ WellFormed(rawClasses)) =>
        /\ IsFlipOf(call.ret[2], call.ret[1])
        /\ FlippedHolds(call.ret[2], rawClasses)

\* Both mappers were built from a well-formed input of two classes, one
\* with two methods, one of them with a descriptor the class table changes.
C21_Witness ==
    /\ call.op = "convert_mappings"
    /\ WellFormed(rawClasses)
    /\ Len(rawClasses) = 2
    /\ \E i \in DOMAIN rawClasses :
        /\ Len(rawClasses[i].methods) = 2
        /\ \E j \in DOMAIN rawClasses[i].methods :
            Remapped(rawClasses[i].methods[j].descriptor, rawClasses)
                # rawClasses[i].methods[j].descriptor

(***************************************************************************)
(* The tiny-v2 parser (src/src/mappings/tiny.rs).  Text is a sequence of   *)
(* characters; the tab-separated tokens of a class or method line are      *)
(* given as the strings safe_string read.                                  *)
(***************************************************************************)
MaxName == 2
MaxTinyClasses == 2

\* Characters of a class name token: a letter and the separator of the wire format.
NameChars == {"a", "/"}

TinyNames == UNION {[1..n -> NameChars] : n \in 1..MaxName}

\* A parser that keeps the names as they are in the file.
ReplaceNothing(name) == name

\* name.replace('/', ".")
ReplaceSlash(name) == [i \in DOMAIN name |-> IF name[i] = "/" THEN "." ELSE name[i]]

PrimLetters == {"V", "Z", "B", "S", "C", "I", "J", "F", "D"}

\* The Type of a primitive descriptor letter.
PrimOf(letter) ==
    CASE letter = "V" -> Prim("void")
      [] letter = "Z" -> Prim("boolean")
      [] letter = "B" -> Prim("byte")
      [] letter = "S" -> Prim("short")
      [] letter = "C" -> Prim("char")
      [] letter = "I" -> Prim("int")
      [] letter = "J" -> Prim("long")
      [] letter = "F" -> Prim("float")
      [] letter = "D" -> Prim("double")

\* type_name: how many leading characters of text it reads
RECURSIVE TypeNameLen(_)
TypeNameLen(text) ==
    IF text = <<>> \/ Head(text) \in {"\t", "\n", "\r", "\\", ";"}
    THEN 0
    ELSE 1 + TypeNameLen(Tail(text))

\* descriptor_type: None, or Some of the type read and the text left
RECURSIVE descriptor_type(_)
descriptor_type(text) ==
    IF text = <<>> THEN None
    ELSE IF Head(text) \in PrimLetters
    THEN Some([ty |-> PrimOf(Head(text)), rest |-> Tail(text)])
    ELSE IF Head(text) = "L"
    THEN LET n == TypeNameLen(Tail(text))
         IN  IF n >= 1 /\ Len(text) >= n + 2 /\ text[n + 2] = ";"
             THEN Some([ty |-> Object(ReplaceSlash(SubSeq(text, 2, n + 1))),
                        rest |-> SubSeq(text, n + 3, Len(text))])
             ELSE None
    ELSE IF Head(text) = "["
    THEN LET inner == descriptor_type(Tail(text))
         IN  IF inner = None THEN None
             ELSE Some([ty |-> Array(inner[1].ty), rest |-> inner[1].rest])
    ELSE None

\* descriptor_type().repeated(): the types read and the text left
RECURSIVE descriptor_types(_)
descriptor_types(text) ==
    LET one == descriptor_type(text)
    IN  IF one = None THEN [tys |-> <<>>, rest |-> text]
        ELSE LET more == descriptor_types(one[1].rest)
             IN  [tys |-> <<one[1].ty>> \o more.tys, rest |-> more.rest]

\* descriptor, on the whole of a descriptor token
descriptor(text) ==
    IF text = <<>> \/ Head(text) # "(" THEN None
    ELSE LET params == descriptor_types(Tail(text))
         IN  IF params.rest = <<>> \/ Head(params.rest) # ")" THEN None
             ELSE LET return_type == descriptor_type(Tail(params.rest))
                  IN  IF return_type = None \/ return_type[1].rest # <<>> THEN None
                      ELSE Some(Descriptor(params.tys, return_type[1].ty))

\* "()V", "(L/a;)V" and "([La;)L/a;"
DescTexts ==
    { <<"(", ")", "V">>,
      <<"(", "L", "/", "a", ";", ")", "V">>,
      <<"(", "[", "L", "a", ";", ")", "L", "/", "a", ";">> }

\* The tokens of a method line: descriptor, primary name, first mapped name.
TinyMethodLines ==
    [desc : DescTexts, primary_name : {<<"m">>}, mapped_names : {<<None>>, <<Some(<<"n">>)>>}]

\* The tokens of a class section: its class line and at most one method line.
TinyClassSections ==
    [name_a : TinyNames,
     mapped_names : {<<None>>} \cup {<<Some(n)>> : n \in TinyNames},
     methods : {<<>>} \cup {<<m>> : m \in TinyMethodLines}]

TinyHeaders ==
    {[namespace_a |-> "official", namespace_b |-> "intermediary"],
     [namespace_a |-> "official", namespace_b |-> "named"]}

TinyFiles ==
    [header : TinyHeaders,
     classes : UNION {[1..n -> TinyClassSections] : n \in 0..MaxTinyClasses}]

\* method_section's map
method_section(line) ==
    [primary_desc |-> descriptor(line.desc)[1],
     primary_name |-> line.primary_name,
     mapped_names |-> line.mapped_names]

\* class_section's map
class_section(section) ==
    [primary_name |-> ReplaceSlash(section.name_a),
     mapped_names |-> [i \in DOMAIN section.mapped_names |->
                          IF section.mapped_names[i] = None THEN None
                          ELSE Some(ReplaceSlash(section.mapped_names[i][1]))],
     methods |-> [j \in DOMAIN section.methods |-> method_section(section.methods[j])]]

\* parse_tiny_v2
parse_tiny_v2(file) ==
    [header |-> file.header,
     content |-> [classes |-> [i \in DOMAIN file.classes |-> class_section(file.classes[i])]]]

InitTiny ==
    /\ CacheIdle
    /\ GenIdle
    /\ rawClasses = <<>>
    /\ hasher = FALSE
    /\ stdin = <<>>
    /\ tiny \in TinyFiles
    /\ call = [op |-> "none"]

\* fabric_intermediary::load up to the parse of mappings.tiny
ParseTiny ==
    /\ call.op = "none"
    /\ call' = [op |-> "parse_tiny_v2", ret |-> parse_tiny_v2(tiny)]
    /\ UNCHANGED <<rawClasses, hasher, stdin, tiny, cacheVars, genVars>>

\* fabric_intermediary::load from the header check on
LoadTiny ==
    /\ call.op = "parse_tiny_v2"
    /\ \E obf_to_fabric \in BOOLEAN :
          LET mappings == call.ret
          IN  IF \/ mappings.header.namespace_a # "official"
                 \/ mappings.header.namespace_b # "intermediary"
              THEN call' = [op |-> "load", ok |-> FALSE]
              ELSE call' = [op |-> "load", ok |-> TRUE,
                            ret |-> FabricConvert(mappings.content.classes, "1.19",
                                                  obf_to_fabric)]
    /\ UNCHANGED <<rawClasses, hasher, stdin, tiny, cacheVars, genVars>>

NextTiny == ParseTiny \/ LoadTiny

SpecTiny == InitTiny /\ [][NextTiny]_vars

\* The class names inside a type.
RECURSIVE ClassesOfType(_)
ClassesOfType(ty) ==
    CASE ty.k = "obj" -> {ty.n}
      [] ty.k = "arr" -> ClassesOfType(ty.e[1])
      [] OTHER -> {}

ClassesOfDescriptor(d) ==
    ClassesOfType(d.return_type) \cup UNION {ClassesOfType(d.params[i]) : i \in DOMAIN d.params}

\* Every class name a BaseMapper holds: keys, to_names, and the Object types
\* of the method descriptors on both sides.
ClassNamesOf(m) ==
    LET classes == m.mappings.classes
    IN  DOMAIN classes
        \cup {classes[c].to_name : c \in DOMAIN classes}
        \cup UNION {UNION {ClassesOfDescriptor(k.descriptor)
                           \cup ClassesOfDescriptor(classes[c].methods[k].descriptor) :
                              k \in DOMAIN classes[c].methods} : c \in DOMAIN classes}

HasSlash(name) == \E i \in DOMAIN name : name[i] = "/"

\* C17 - Tiny-v2 slash normalization: in a BaseMapper built from a tiny-v2
\* file no class name contains '/', be it a key of the class table, a
\* to_name, or an Object type of a method descriptor on either side.
C17_NoSlash ==
    (call.op = "load" /\ call.ok) => \A name \in ClassNamesOf(call.ret) : ~HasSlash(name)

C17_Witness ==
    /\ call.op = "load"
    /\ call.ok
    /\ Len(tiny.classes) = 2
    /\ \A i \in 1..2 :
          /\ HasSlash(tiny.classes[i].name_a)
          /\ tiny.classes[i].mapped_names[1] # None
          /\ HasSlash(tiny.classes[i].mapped_names[1][1])
    /\ Cardinality(DOMAIN call.ret.mappings.classes) = 2
    /\ \E c \in DOMAIN call.ret.mappings.classes :
          \E k \in DOMAIN call.ret.mappings.classes[c].methods :
              /\ ClassesOfDescriptor(k.descriptor) # {}
              /\ ClassesOfDescriptor(k.descriptor) #
                     ClassesOfDescriptor(call.ret.mappings.classes[c].methods[k].descriptor)

(***************************************************************************)
(* The stack-trace parser (src/src/parsing.rs, src/src/stacktrace.rs).     *)
(* Text is a sequence of characters; a parser returns None, or Some of the *)
(* value it read and the text it left.                                     *)
(***************************************************************************)
\* The alphabetic characters of the traces and mappers below.
Letters == {"a", "C", "x", "Z", "U", "d", "m", "e", "t", "j", "v"}

Digits == {"0", "1", "2", "3", "4", "5", "6", "7", "8", "9"}

\* is_java_identifier_part
JavaIdentifierPart == Digits \cup Letters \cup {"$", "_"}

\* the filter of jtype
JTypeChars == JavaIdentifierPart \cup {".", "[", "]", "-"}

Take(text, n) == SubSeq(text, 1, n)

Drop(text, n) == SubSeq(text, n + 1, Len(text))

\* filter(..).repeated(): how many leading characters of text are in chars
RECURSIVE PrefixLen(_, _)
PrefixLen(text, chars) ==
    IF text = <<>> \/ Head(text) \notin chars THEN 0
    ELSE 1 + PrefixLen(Tail(text), chars)

\* jtype
jtype(text) ==
    LET n == PrefixLen(text, JTypeChars)
    IN  IF n >= 1 THEN Some([val |-> Take(text, n), rest |-> Drop(text, n)]) ELSE None

\* just(lit)
just(lit, text) ==
    IF Len(text) >= Len(lit) /\ Take(text, Len(lit)) = lit
    THEN Some([val |-> lit, rest |-> Drop(text, Len(lit))])
    ELSE None

\* eol
eol(text) ==
    IF just(<<"\n">>, text) # None THEN just(<<"\n">>, text)
    ELSE just(<<"\r", "\n">>, text)

\* eol().not().repeated(): how many characters come before the next eol
RECURSIVE UntilEol(_)
UntilEol(text) ==
    IF text = <<>> \/ eol(text) # None THEN 0 ELSE 1 + UntilEol(Tail(text))

DigitValue(c) ==
    CASE c = "0" -> 0 [] c = "1" -> 1 [] c = "2" -> 2 [] c = "3" -> 3 [] c = "4" -> 4
      [] c = "5" -> 5 [] c = "6" -> 6 [] c = "7" -> 7 [] c = "8" -> 8 [] c = "9" -> 9

\* A u32 is held as its decimal digits without leading zeros, which is what
\* parse::<u32> followed by Display yields.
RECURSIVE StripZeros(_)
StripZeros(digits) ==
    IF Len(digits) > 1 /\ Head(digits) = "0" THEN StripZeros(Tail(digits)) ELSE digits

\* u32::MAX
U32Max == <<"4", "2", "9", "4", "9", "6", "7", "2", "9", "5">>

\* a <= b for two digit strings of the same length
RECURSIVE DigitsLeq(_, _)
DigitsLeq(a, b) ==
    IF a = <<>> THEN TRUE
    ELSE IF DigitValue(Head(a)) # DigitValue(Head(b))
    THEN DigitValue(Head(a)) < DigitValue(Head(b))
    ELSE DigitsLeq(Tail(a), Tail(b))

\* str::parse::<u32> succeeds
FitsU32(digits) ==
    LET value == StripZeros(digits)
    IN  \/ Len(value) < Len(U32Max)
        \/ Len(value) = Len(U32Max) /\ DigitsLeq(value, U32Max)

\* u32_digits
u32_digits(text) ==
    LET n == PrefixLen(text, Digits)
    IN  IF n >= 1 /\ FitsU32(Take(text, n))
        THEN Some([val |-> StripZeros(Take(text, n)), rest |-> Drop(text, n)])
        ELSE None

\* str::find: the index of the first ch in text, 0 when there is none
RECURSIVE Find(_, _)
Find(text, ch) ==
    IF text = <<>> THEN 0
    ELSE IF Head(text) = ch THEN 1
    ELSE LET later == Find(Tail(text), ch) IN IF later = 0 THEN 0 ELSE later + 1

\* str::rfind: the index of the last ch in text, 0 when there is none
RECURSIVE RFind(_, _)
RFind(text, ch) ==
    IF text = <<>> THEN 0
    ELSE IF text[Len(text)] = ch THEN Len(text)
    ELSE RFind(Take(text, Len(text) - 1), ch)

\* the keywords of Type::from_source_name and of Type's Display
Keyword(name) ==
    CASE name = "void" -> <<"v", "o", "i", "d">>
      [] name = "boolean" -> <<"b", "o", "o", "l", "e", "a", "n">>
      [] name = "byte" -> <<"b", "y", "t", "e">>
      [] name = "char" -> <<"c", "h", "a", "r">>
      [] name = "short" -> <<"s", "h", "o", "r", "t">>
      [] name = "int" -> <<"i", "n", "t">>
      [] name = "long" -> <<"l", "o", "n", "g">>
      [] name = "float" -> <<"f", "l", "o", "a", "t">>
      [] name = "double" -> <<"d", "o", "u", "b", "l", "e">>

Keywords ==
    {"void", "boolean", "byte", "char", "short", "int", "long", "float", "double"}

\* Type::from_source_name
RECURSIVE from_source_name(_)
from_source_name(name) ==
    IF \E k \in Keywords : Keyword(k) = name
    THEN Prim(CHOOSE k \in Keywords : Keyword(k) = name)
    ELSE IF Len(name) >= 2 /\ Drop(name, Len(name) - 2) = <<"[", "]">>
    THEN Array(from_source_name(Take(name, Len(name) - 2)))
    ELSE Object(name)

\* is_inline_whitespace
InlineWhitespace == {" ", "\t"}

\* the characters text::whitespace skips
Whitespace == {" ", "\t", "\n", "\r"}

\* frame, from the eol that ends the line on
frame_eol(f, end_of_line) ==
    IF end_of_line = None THEN None
    ELSE Some([val |-> f, rest |-> end_of_line[1].rest])

\* frame, from the optional " ~[..]" on: without a closing ']' it is not read
frame_hint(f, text, hint) ==
    frame_eol(f, IF hint = None \/ Find(hint[1].rest, "]") = 0
                 THEN eol(text)
                 ELSE eol(Drop(hint[1].rest, Find(hint[1].rest, "]"))))

\* frame, from the ')' on
frame_close(f, close) ==
    IF close = None THEN None
    ELSE frame_hint(f, close[1].rest, just(<<" ", "~", "[">>, close[1].rest))

\* frame, from the optional line number on: ':' without a number is not read
frame_line(module, class, method, file, text, number) ==
    frame_close([module |-> module, class |-> class, method |-> method, file |-> file,
                 line |-> IF number = None THEN None ELSE Some(number[1].val)],
                just(<<")">>, IF number = None THEN text ELSE number[1].rest))

\* frame, from the file name on
frame_file(module, class, method, file) ==
    IF file = None THEN None
    ELSE frame_line(module, class, method, file[1].val, file[1].rest,
                    IF just(<<":">>, file[1].rest) = None THEN None
                    ELSE u32_digits(Drop(file[1].rest, 1)))

\* frame, the split of class+method at the last '.' and the '(' after it
frame_split(module, class_method, last_dot, open) ==
    IF last_dot = 0 \/ open = None THEN None
    ELSE frame_file(module, Take(class_method, last_dot - 1), Drop(class_method, last_dot),
                    jtype(open[1].rest))

\* frame, from class+method on
frame_class_method(module, class_method) ==
    IF class_method = None THEN None
    ELSE frame_split(module, class_method[1].val, RFind(class_method[1].val, "."),
                     just(<<"(">>, class_method[1].rest))

\* frame, from the optional "<module>/" on
frame_module(text, module_name) ==
    IF module_name # None /\ just(<<"/">>, module_name[1].rest) # None
    THEN frame_class_method(Some(module_name[1].val), jtype(Drop(module_name[1].rest, 1)))
    ELSE frame_class_method(None, jtype(text))

\* frame, from "at " on
frame_at(at) ==
    IF at = None THEN None ELSE frame_module(at[1].rest, jtype(at[1].rest))

\* frame
frame(text) ==
    frame_at(just(<<"a", "t", " ">>, Drop(text, PrefixLen(text, InlineWhitespace))))

\* frame().repeated(): the frames read and the text left
RECURSIVE frames_repeated(_)
frames_repeated(text) ==
    LET one == frame(text)
    IN  IF one = None THEN [val |-> <<>>, rest |-> text]
        ELSE LET more == frames_repeated(one[1].rest)
             IN  [val |-> <<one[1].val>> \o more.val, rest |-> more.rest]

\* stacktrace, from the frames on
stacktrace_frames(ty, message, frames) ==
    IF Drop(frames.rest, PrefixLen(frames.rest, Whitespace)) # <<>> THEN None
    ELSE Some([ty |-> from_source_name(ty), message |-> message, frames |-> frames.val])

\* stacktrace, from the eol that ends the header on
stacktrace_eol(ty, message, line_end) ==
    IF line_end = None THEN None
    ELSE stacktrace_frames(ty, message, frames_repeated(line_end[1].rest))

\* stacktrace, from the message on
stacktrace_message(ty, sep) ==
    IF sep = None THEN None
    ELSE stacktrace_eol(ty, Take(sep[1].rest, UntilEol(sep[1].rest)),
                        eol(Drop(sep[1].rest, UntilEol(sep[1].rest))))

\* stacktrace
stacktrace(ty) ==
    IF ty = None THEN None
    ELSE stacktrace_message(ty[1].val, just(<<":", " ">>, ty[1].rest))

\* parse_stacktrace: None when the parser reports an error
parse_stacktrace(input) == stacktrace(jtype(input))

(***************************************************************************)
(* The rewriter and the printer (src/src/stacktrace.rs, src/src/main.rs).  *)
(***************************************************************************)
\* Display for Type
RECURSIVE TypeText(_)
TypeText(ty) ==
    CASE ty.k = "prim" -> Keyword(ty.n)
      [] ty.k = "obj" -> ty.n
      [] ty.k = "arr" -> TypeText(ty.e[1]) \o <<"[", "]">>

\* Display for Frame
FrameText(f) ==
    (IF f.module # None THEN f.module[1] \o <<"/">> ELSE <<>>)
    \o f.class \o <<".">> \o f.method \o <<"(">> \o f.file
    \o (IF f.line # None THEN <<":">> \o f.line[1] ELSE <<>>)
    \o <<")">>

\* Display for Stacktrace
StacktraceText(st) ==
    TypeText(st.ty) \o <<":", " ">> \o st.message \o <<"\n">>
    \o Flatten([i \in DOMAIN st.frames |-> <<"\t", "a", "t", " ">> \o FrameText(st.frames[i])
                                             \o <<"\n">>])

\* println! without the newline it appends
PrintBare(text) == text

\* println!("{}", ..)
Println(text) == text \o <<"\n">>

\* A join that keeps the first name only.
JoinFirst(names, sep) == names[1]

\* Itertools::join
RECURSIVE Join(_, _)
Join(names, sep) ==
    IF names = <<>> THEN <<>>
    ELSE IF Len(names) = 1 THEN names[1]
    ELSE names[1] \o sep \o Join(Tail(names), sep)

\* The class table a mapper looks names up in, for MapType.
ClassTable(m) == [c \in DOMAIN m.mappings.classes |-> m.mappings.classes[c].to_name]

\* A rewriter that looks the method up under the rewritten class name.
LookupMappedClass(class, mapped_class) == mapped_class

\* `mapper.map_method(&self.class.to_string(), ..)`
LookupClass(class, mapped_class) == class

\* impl MapSelf for Frame
FrameMapSelf(f, mapper, reversed) ==
    LET mapped_class == IF BaseMapClass(mapper, f.class) = None THEN f.class
                        ELSE BaseMapClass(mapper, f.class)[1]
        methods == BaseMapMethod(mapper, LookupClass(f.class, mapped_class), f.method,
                                 None, reversed)
        method == IF methods = <<>> THEN f.method
                  ELSE Join([i \in DOMAIN methods |-> methods[i][2].name], <<"/">>)
        dot == Find(f.file, ".")
        mapped_file ==
            IF dot = 0 THEN None
            ELSE LET name == Take(f.file, dot - 1)
                     ext == Drop(f.file, dot)
                     pkg_end == RFind(f.class, ".")
                     as_class_name == IF pkg_end = 0 THEN name
                                      ELSE Take(f.class, pkg_end - 1) \o <<".">> \o name
                     c == BaseMapClass(mapper, as_class_name)
                 IN  IF c = None THEN None
                     ELSE Some(Drop(c[1], RFind(c[1], ".")) \o <<".">> \o ext)
    IN  [module |-> f.module,
         class |-> mapped_class,
         method |-> method,
         file |-> IF mapped_file = None THEN f.file ELSE mapped_file[1],
         line |-> f.line]

\* A rewriter that returns the frames last to first.
StacktraceMapSelfBackward(st, mapper, reversed) ==
    [ty |-> MapType(st.ty, ClassTable(mapper)),
     message |-> st.message,
     frames |-> Reverse([i \in DOMAIN st.frames |->
                            FrameMapSelf(st.frames[i], mapper, reversed)])]

\* impl MapSelf for Stacktrace
StacktraceMapSelf(st, mapper, reversed) ==
    [ty |-> MapType(st.ty, ClassTable(mapper)),
     message |-> st.message,
     frames |-> [i \in DOMAIN st.frames |-> FrameMapSelf(st.frames[i], mapper, reversed)]]

(***************************************************************************)
(* Traces and mappers for the rewriter: canonical trace texts of up to     *)
(* MaxFrames frames, and mappers built from up to MaxClasses raw classes.  *)
(***************************************************************************)
MaxFrames == 1

\* a.C and x.Z
TraceClassNames == {<<"a", ".", "C">>, <<"x", ".", "Z">>}

\* U, a class no mapper knows
UnknownClass == <<"U">>

TraceMethodNames == {<<"d">>, <<"m">>}

TraceRawMethodList ==
    << [descriptor |-> Descriptor(<<>>, Prim("void")), mapping |-> << <<"d">>, <<"m">> >>],
       [descriptor |-> Descriptor(<<Object(<<"a", ".", "C">>)>>, Prim("void")),
        mapping |-> << <<"d">>, <<"d">> >>],
       [descriptor |-> Descriptor(<<>>, Prim("void")), mapping |-> << <<"m">>, <<"d">> >>] >>

TraceMethodLists ==
    {Pick(TraceRawMethodList, picked) :
        picked \in {x \in SUBSET DOMAIN TraceRawMethodList : Cardinality(x) <= MaxMethods}}

TraceRawInputs ==
    UNION {[1..n -> [mapping : TraceClassNames \X TraceClassNames,
                     methods : TraceMethodLists]] : n \in 0..MaxClasses}

\* C.java, C.C.j with two dots, and Z, a file name without an extension
TraceFiles == {<<"C", ".", "j", "a", "v", "a">>, <<"C", ".", "C", ".", "j">>, <<"Z">>}

\* no module, or module m
TraceModules == {None, Some(<<"m">>)}

\* no line number, or 42
TraceLines == {None, Some(<<"4", "2">>)}

TraceFrames ==
    [module : TraceModules,
     class : TraceClassNames \cup {UnknownClass},
     method : TraceMethodNames,
     file : TraceFiles,
     line : TraceLines]

\* The text of a trace in the canonical layout: "<type>: <msg>\n", then one
\* "\tat <frame>\n" line for each frame.
CanonicalText(ty, message, frames) ==
    ty \o <<":", " ">> \o message \o <<"\n">>
    \o Flatten([i \in DOMAIN frames |->
                   <<"\t", "a", "t", " ">>
                   \o (IF frames[i].module = None THEN <<>>
                       ELSE frames[i].module[1] \o <<"/">>)
                   \o frames[i].class \o <<".">> \o frames[i].method
                   \o <<"(">> \o frames[i].file
                   \o (IF frames[i].line = None THEN <<>> ELSE <<":">> \o frames[i].line[1])
                   \o <<")", "\n">>])

\* Two frames that differ in every field, in either order.
TraceFramePairs ==
    LET first == [module |-> None, class |-> <<"a", ".", "C">>, method |-> <<"d">>,
                  file |-> <<"C", ".", "j", "a", "v", "a">>, line |-> Some(<<"4", "2">>)]
        second == [module |-> Some(<<"m">>), class |-> <<"x", ".", "Z">>, method |-> <<"m">>,
                   file |-> <<"Z">>, line |-> None]
    IN  {<<first, second>>, <<second, first>>}

CanonicalTexts ==
    {CanonicalText(ty, <<"e">>, frames) :
        ty \in {<<"a", ".", "C">>, UnknownClass},
        frames \in UNION {[1..n -> TraceFrames] : n \in 0..MaxFrames} \cup TraceFramePairs}

\* The mapper generate_mapper returned, as a source builds it from rawClasses.
TraceMapper == convert_mappings("Obfuscated", "Mojang", "1.19", rawClasses, FALSE)

InitTrace ==
    /\ CacheIdle
    /\ GenIdle
    /\ rawClasses \in TraceRawInputs
    /\ hasher \in BOOLEAN
    /\ stdin \in CanonicalTexts
    /\ tiny = <<>>
    /\ call = [op |-> "none"]

\* main_for_result up to parse_stacktrace(&stacktrace)?
ParseTrace ==
    /\ call.op = "none"
    /\ LET parsed == parse_stacktrace(stdin)
       IN  IF parsed = None
           THEN call' = [op |-> "parse_stacktrace", ok |-> FALSE]
           ELSE call' = [op |-> "parse_stacktrace", ok |-> TRUE, ret |-> parsed[1]]
    /\ UNCHANGED <<rawClasses, hasher, stdin, tiny, cacheVars, genVars>>

\* stacktrace.map_self(&mapper)
MapTrace ==
    /\ call.op = "parse_stacktrace"
    /\ call.ok
    /\ call' = [op |-> "map_self", before |-> call.ret,
                ret |-> StacktraceMapSelf(call.ret, TraceMapper, hasher)]
    /\ UNCHANGED <<rawClasses, hasher, stdin, tiny, cacheVars, genVars>>

\* println!("{}", mapped_stacktrace)
PrintTrace ==
    /\ call.op = "map_self"
    /\ call' = [op |-> "println", before |-> call.before, mapped |-> call.ret,
                ret |-> Println(StacktraceText(call.ret))]
    /\ UNCHANGED <<rawClasses, hasher, stdin, tiny, cacheVars, genVars>>

NextTrace == ParseTrace \/ MapTrace \/ PrintTrace

SpecTrace == InitTrace /\ [][NextTrace]_vars

(***************************************************************************)
(* Properties of the rewriter and the printer.                             *)
(***************************************************************************)
\* Where the i-th name starts in the names joined by a one-character separator.
RECURSIVE JoinOffset(_, _)
JoinOffset(names, i) ==
    IF i = 1 THEN 0 ELSE JoinOffset(names, i - 1) + Len(names[i - 1]) + 1

\* text is the names in their order, a '/' between each two and nothing else.
IsJoined(text, names) ==
    /\ Len(text) = JoinOffset(names, Len(names)) + Len(names[Len(names)])
    /\ \A i \in DOMAIN names :
          /\ SubSeq(text, JoinOffset(names, i) + 1, JoinOffset(names, i) + Len(names[i]))
                = names[i]
          /\ i < Len(names) => text[JoinOffset(names, i) + Len(names[i]) + 1] = "/"

\* What map_method returns for frame f: looked up under f's own class, no descriptor.
FrameCandidates(f) == BaseMapMethod(TraceMapper, f.class, f.method, None, hasher)

CandidateNames(f) == [i \in DOMAIN FrameCandidates(f) |-> FrameCandidates(f)[i][2].name]

\* C14 - Multi-result formatting: when map_method returns two or more
\* candidates for a frame, the rewritten frame's method is the candidates'
\* method names joined by '/' in the order the mapper returned them,
\* duplicates included.
C14_MultiResult ==
    call.op = "map_self" =>
        \A i \in DOMAIN call.before.frames :
            Len(FrameCandidates(call.before.frames[i])) >= 2
                => IsJoined(call.ret.frames[i].method, CandidateNames(call.before.frames[i]))

C14_Witness ==
    /\ call.op = "map_self"
    /\ Len(call.before.frames) >= 1
    /\ Len(FrameCandidates(call.before.frames[1])) = 2
    /\ CandidateNames(call.before.frames[1])[1] # CandidateNames(call.before.frames[1])[2]
    /\ Len(call.ret.frames[1].method) = 3

\* The mapper maps every class and every method it knows to the same name.
IsIdentity(m) ==
    \A c \in DOMAIN m.mappings.classes :
        /\ m.mappings.classes[c].to_name = c
        /\ \A k \in DOMAIN m.mappings.classes[c].methods :
              m.mappings.classes[c].methods[k].name = k.name

\* C15 - Identity round-trip: a canonical trace text, parsed, mapped by a
\* mapper that maps every name to itself and printed as the program prints
\* it on standard output, comes out equal to the input, byte for byte.
C15_IdentityRoundTrip ==
    (call.op = "println" /\ IsIdentity(TraceMapper)) => call.ret = stdin

\* C16 - Method fallback: the method of a rewritten frame is decided by the
\* lookup under the frame's original class name with no descriptor: no
\* candidates keep the method verbatim, whether or not the class was
\* rewritten, and candidates replace it by their names; a frame of an unknown
\* class whose method name is mapped in two classes keeps its method.
C16_MethodFallback ==
    call.op = "map_self" =>
        \A i \in DOMAIN call.before.frames :
            LET f == call.before.frames[i]
                g == call.ret.frames[i]
                classes == TraceMapper.mappings.classes
            IN  /\ FrameCandidates(f) = <<>> => g.method = f.method
                /\ FrameCandidates(f) # <<>> => IsJoined(g.method, CandidateNames(f))
                /\ (f.class \notin DOMAIN classes /\ Cardinality(Owners(classes, f.method)) >= 2)
                      => g.method = f.method

C16_Witness ==
    /\ call.op = "map_self"
    /\ Len(call.before.frames) >= 1
    /\ LET f == call.before.frames[1]
           classes == TraceMapper.mappings.classes
       IN  /\ f.class = UnknownClass
           /\ Cardinality(Owners(classes, f.method)) = 2
           /\ \E c \in DOMAIN classes : \E k \in DOMAIN classes[c].methods :
                 k.name = f.method /\ classes[c].methods[k].name # f.method
           /\ call.ret.frames[1].method = f.method

\* A frame whose class is rewritten while its method, unknown to the
\* mapper, is kept.
C16_ClassRewritten ==
    /\ call.op = "map_self"
    /\ Len(call.before.frames) >= 1
    /\ call.ret.frames[1].class # call.before.frames[1].class
    /\ FrameCandidates(call.before.frames[1]) = <<>>
    /\ call.ret.frames[1].method = call.before.frames[1].method

\* The class name in the package of class whose simple name is basename.
InPackageOf(class, basename) ==
    IF RFind(class, ".") = 0 THEN basename
    ELSE Take(class, RFind(class, ".")) \o basename

\* The simple name of a class name.
SimpleName(class) == Drop(class, RFind(class, "."))

\* The file of frame f rewritten as the file split at position dot says.
FileSplitAt(f, dot) ==
    IF dot = 0 THEN f.file
    ELSE LET c == BaseMapClass(TraceMapper, InPackageOf(f.class, Take(f.file, dot - 1)))
         IN  IF c = None THEN f.file
             ELSE SimpleName(c[1]) \o <<".">> \o Drop(f.file, dot)

\* C22 - File-name rewriting: the file of every frame is split on its last
\* '.' into (basename, ext); when map_class is defined for the frame's
\* original class with its simple name replaced by basename, the new file is
\* the mapped class's simple name, '.' and ext, and otherwise the file is
\* unchanged.
C22_FileLastDot ==
    call.op = "map_self" =>
        \A i \in DOMAIN call.before.frames :
            call.ret.frames[i].file
                = FileSplitAt(call.before.frames[i], RFind(call.before.frames[i].file, "."))

\* The same with the file split on its first '.', as split_once does.
C22_FileFirstDot ==
    call.op = "map_self" =>
        \A i \in DOMAIN call.before.frames :
            call.ret.frames[i].file
                = FileSplitAt(call.before.frames[i], Find(call.before.frames[i].file, "."))

\* A frame whose file has two dots and was rewritten.
C22_TwoDots ==
    /\ call.op = "map_self"
    /\ Len(call.before.frames) >= 1
    /\ Find(call.before.frames[1].file, ".") # RFind(call.before.frames[1].file, ".")
    /\ call.ret.frames[1].file # call.before.frames[1].file

\* C23 - Rewriting a stack trace leaves the message, the number and the
\* order of the frames and every frame's module and line unchanged; only
\* the exception type and the class, method and file of a frame may change.
C23_FrameEffect ==
    call.op = "map_self" =>
        /\ call.ret.message = call.before.message
        /\ Len(call.ret.frames) = Len(call.before.frames)
        /\ \A i \in DOMAIN call.before.frames :
              /\ call.ret.frames[i].module = call.before.frames[i].module
              /\ call.ret.frames[i].line = call.before.frames[i].line
              /\ DOMAIN call.ret.frames[i] = DOMAIN call.before.frames[i]
        /\ DOMAIN call.ret = DOMAIN call.before

\* A trace of two frames that differ in module and line was rewritten, and
\* the exception type and the class, method and file of a frame changed.
C23_Witness ==
    /\ call.op = "map_self"
    /\ Len(call.before.frames) = 2
    /\ call.before.frames[1].module # call.before.frames[2].module
    /\ call.before.frames[1].line # call.before.frames[2].line
    /\ call.ret.ty # call.before.ty
    /\ \E i \in 1..2 :
          /\ call.ret.frames[i].class # call.before.frames[i].class
          /\ call.ret.frames[i].method # call.before.frames[i].method
          /\ call.ret.frames[i].file # call.before.frames[i].file

====
